---- MODULE Spec2Model ----
(***************************************************************************)
(* A model of the Optimus analysis framework (oaf):                        *)
(*   - the calibration wave simulator (QuantumCalibrationSimulator) with   *)
(*     its Node hierarchy, as a state machine (specification Spec);        *)
(*   - the wave-log analysis functions (split_data_by_wave, base-failure   *)
(*     attribution, chain-length and depth metrics) as operators, applied  *)
(*     to bounded inputs (specifications SpecAnalysis and SpecStats).      *)
(*                                                                         *)
(* Representation.  A node identifier is a Python string; it is modelled   *)
(* as the sequence of its characters, so that list(name) and list += name  *)
(* (which iterate over the characters of a string) are not the identity.   *)
(* Times and wave values are Python floats; they are modelled in fixed     *)
(* point, in units of 0.001 (Milli units per time unit), which is exact    *)
(* for the sums current_time + check_offest * 0.001 the program forms.     *)
(* Means (sum / len) are modelled as fractions [num, den].                 *)
(***************************************************************************)
EXTENDS Integers, Sequences, FiniteSets, TLC

VARIABLES
    graph,               \* self.graph: node id -> sequence of direct successors
    root_nodes,          \* self.root_nodes
    time_step,           \* self.time_step
    node_names,          \* key order of the self.nodes dict
    nodes,               \* self.nodes: node id -> Node object state
    wave_data,           \* self.wave_data
    check_data_results,  \* self.check_data_results
    ground_truth,        \* self.ground_truth
    wave_offset,         \* self.wave_offset
    current_time,        \* self.current_time (fixed point)
    pc,                  \* position in simulate(): "loop", "check", "crashed"
    timed_out_nodes,     \* simulate(): local timed_out_nodes
    submitted_nodes,     \* simulate(): local submitted_nodes
    sub_idx,             \* simulate(): position of the Step 3 for loop
    stack,               \* activation records of _check_node that are in their successor loop
    input,               \* argument of the analysis function under study
    output               \* its result

vars == <<graph, root_nodes, time_step, node_names, nodes, wave_data,
          check_data_results, ground_truth, wave_offset, current_time, pc,
          timed_out_nodes, submitted_nodes, sub_idx, stack, input, output>>

(***************************************************************************)
(* Bounds and program constants                                            *)
(***************************************************************************)
\* simulate(total_time_steps) is called with total_time_steps <= MaxTime
MaxTime == 4

\* one unit of check_offest is 0.001 time units
Milli == 1000

(***************************************************************************)
(* Sequence helpers (Python list idioms)                                   *)
(***************************************************************************)
SeqToSet(s) == {s[i] : i \in 1..Len(s)}

InSeq(x, s) == \E i \in 1..Len(s) : s[i] = x

Last(s) == s[Len(s)]

\* list(dict.fromkeys(s)): drop duplicates, keep the first occurrence
RECURSIVE DedupFrom(_, _, _)
DedupFrom(s, i, acc) ==
    IF i > Len(s) THEN acc
    ELSE DedupFrom(s, i + 1, IF InSeq(s[i], acc) THEN acc ELSE Append(acc, s[i]))

dict_fromkeys(s) == DedupFrom(s, 1, <<>>)

\* list(name) for a string name: its characters, each a one-character string
list_of_str(name) == [i \in 1..Len(name) |-> <<name[i]>>]

Max(a, b) == IF a >= b THEN a ELSE b

(***************************************************************************)
(* Node model hierarchy (node.py, virtual_node.py)                         *)
(***************************************************************************)
\* the value of an attribute that holds None or was never set
None == -1

\* self.num_first_checks_to_delay
num_first_checks_to_delay == 2

\* Node.__init__ with the adaptive-timeout options left at their defaults
Node_init(timeout) ==
    [ base_timeout |-> timeout,
      timeout |-> timeout,
      failed |-> FALSE,
      last_calibration |-> 0,
      last_check |-> 0,
      last_submission |-> None,
      failure_magnitude |-> 0,
      check_data_value |-> "None",
      cur_num_first_checks_delayed |-> 0,
      first_check_delayed_flag |-> FALSE,
      long_lived_flag |-> FALSE,
      delay_first_check |-> FALSE,
      fifth_percentile_ttf |-> None,
      check_long_lived_nodes |-> FALSE,
      ninety_fifth_percentile_ttf |-> None,
      kind |-> "Node",
      failure_prob |-> 0 ]

\* SimpleNode(name=..., timeout=..., failure_prob=...); failure_prob in percent
SimpleNode(timeout, failure_prob) ==
    [Node_init(timeout) EXCEPT !.kind = "SimpleNode", !.failure_prob = failure_prob]

\* VirtualConnectionNode(name=..., timeout=...)
VirtualConnectionNode(timeout) ==
    [Node_init(timeout) EXCEPT !.kind = "VirtualConnectionNode", !.failed = TRUE]

\* Node.get_check_data
get_check_data(n) ==
    [data |-> n.check_data_value, failure_magnitude |-> n.failure_magnitude]

\* Node.check_data(time): the pair of the returned value and the node afterwards
Node_check_data(n, time) ==
    LET n1 == IF n.first_check_delayed_flag
              THEN [n EXCEPT !.first_check_delayed_flag = FALSE,
                             !.timeout = n.base_timeout]
              ELSE n
        time_alive == Max(n1.last_calibration, n1.last_check) - time
        n2 == IF /\ n1.check_long_lived_nodes
                 /\ ~n1.long_lived_flag
                 /\ time_alive > n1.ninety_fifth_percentile_ttf
              THEN [n1 EXCEPT !.timeout = n1.base_timeout \div 2,
                              !.long_lived_flag = TRUE]
              ELSE n1
    IN  [failed |-> n.failed, node |-> n2]

\* Node.calibrate(time)
Node_calibrate(n, time) ==
    LET n1 == [n EXCEPT !.failed = FALSE,
                        !.last_calibration = time,
                        !.failure_magnitude = 0,
                        !.cur_num_first_checks_delayed = 0,
                        !.long_lived_flag = FALSE]
    IN  IF /\ n1.delay_first_check
           /\ n1.cur_num_first_checks_delayed < num_first_checks_to_delay
           /\ n1.fifth_percentile_ttf > 5 * n1.timeout
        THEN [n1 EXCEPT !.cur_num_first_checks_delayed = @ + 1,
                        !.timeout = n1.fifth_percentile_ttf \div 5,
                        !.first_check_delayed_flag =
                            IF n1.cur_num_first_checks_delayed + 1
                                   = num_first_checks_to_delay
                            THEN TRUE ELSE @]
        ELSE n1

\* a variant of VirtualConnectionNode.calibrate that is not overridden
calibrate_as_Node(n, time) == Node_calibrate(n, time)

\* VirtualConnectionNode.calibrate(time): pass
VirtualConnectionNode_calibrate(n, time) == n

\* node.calibrate(time), dispatched on the node's class
calibrate(n, time) ==
    IF n.kind = "VirtualConnectionNode"
    THEN VirtualConnectionNode_calibrate(n, time)
    ELSE Node_calibrate(n, time)

\* random.random() < self.failure_prob: the draw is uniform on [0, 1), and the
\* program reads nothing of it but this comparison; failure_prob in percent
Draws(failure_prob) ==
    (IF failure_prob > 0 THEN {"below"} ELSE {})
        \cup (IF failure_prob < 100 THEN {"not_below"} ELSE {})

\* a variant of SimpleNode.simulate_failure that draws again while failed
simulate_failure_while_failed(n) ==
    { [n EXCEPT !.check_data_value = r,
                !.failed = (r = "below"),
                !.failure_magnitude = IF r = "below" THEN m ELSE n.failure_magnitude]
      : r \in Draws(n.failure_prob), m \in 1..2 }

\* SimpleNode.simulate_failure(): the set of nodes one call can leave behind
SimpleNode_simulate_failure(n) ==
    IF n.failed THEN {n}
    ELSE { [n EXCEPT !.check_data_value = r,
                     !.failed = (r = "below"),
                     !.failure_magnitude = IF r = "below" THEN m
                                           ELSE n.failure_magnitude]
           : r \in Draws(n.failure_prob), m \in 1..2 }

\* node.simulate_failure(), dispatched on the node's class (Node: pass)
simulate_failure(n) ==
    IF n.kind = "SimpleNode" THEN SimpleNode_simulate_failure(n) ELSE {n}

(***************************************************************************)
(* QuantumCalibrationSimulator (calibration_simulator.py)                  *)
(***************************************************************************)
\* _get_all_dependencies.recurse(node), as a loop over the successors from
\* position i on, threading the shared list dependency_nodes
RECURSIVE recurse(_, _, _, _)
recurse(g, node, i, dependency_nodes) ==
    IF i > Len(g[node]) THEN dependency_nodes
    ELSE LET successor == g[node][i]
         IN  IF InSeq(successor, dependency_nodes)
             THEN recurse(g, node, i + 1, dependency_nodes)
             ELSE recurse(g, node, i + 1,
                          Append(recurse(g, successor, 1, dependency_nodes),
                                 successor))

\* _get_all_dependencies(node_name)
get_all_dependencies(g, node_name) == recurse(g, node_name, 1, <<>>)

\* Step 1 comparing the time itself, not the time since the last check
TimedOutNodes_since_start(ns, names, time) ==
    LET TimedOut(name) == time >= ns[name].timeout
    IN  SelectSeq(names, TimedOut)

\* simulate() Step 1: the timed out nodes, in the order of the nodes dict
TimedOutNodes(ns, names, time) ==
    LET TimedOut(name) == time - ns[name].last_check >= ns[name].timeout
    IN  SelectSeq(names, TimedOut)

\* _submit_timed_trigger: the loop over timed_out_nodes from position i on.
\* submitted_nodes += node extends the list by the characters of the string.
RECURSIVE SubmitLoop(_, _, _, _)
SubmitLoop(g, timed_out, i, submitted) ==
    IF i > Len(timed_out) THEN submitted
    ELSE LET node == timed_out[i]
             dependency_nodes == get_all_dependencies(g, node)
         IN  SubmitLoop(g, timed_out, i + 1,
                        dict_fromkeys(submitted \o dependency_nodes
                                                \o list_of_str(node)))

\* _submit_timed_trigger: "Update last submission time", from position i on;
\* self.nodes[node] raises KeyError for an element that is no key of the dict
RECURSIVE UpdateLastSubmission(_, _, _, _)
UpdateLastSubmission(ns, submitted, i, time) ==
    IF i > Len(submitted) THEN [nodes |-> ns, raised |-> FALSE]
    ELSE IF submitted[i] \notin DOMAIN ns THEN [nodes |-> ns, raised |-> TRUE]
    ELSE UpdateLastSubmission(
             [ns EXCEPT ![submitted[i]].last_submission = time],
             submitted, i + 1, time)

\* _submit_timed_trigger(timed_out_nodes)
submit_timed_trigger(g, ns, roots, timed_out, time) ==
    LET submitted == SubmitLoop(g, timed_out, 1, <<>>)
        upd == UpdateLastSubmission(ns, submitted, 1, time)
    IN  [ raised |-> upd.raised,
          nodes |-> upd.nodes,
          wave_data |-> << [ wave |-> time,
                             timed_trigger |-> TRUE,
                             root_nodes |-> roots,
                             submitted_nodes |-> submitted ] >>,
          submitted_nodes |-> submitted ]

\* _check_state without its dependent calibration check
check_state_timeout_only(g, ns, node_name, time) ==
    LET node == ns[node_name]
        max_check_time == Max(node.last_calibration, node.last_check)
    IN  ~(time - max_check_time >= node.timeout)

\* _check_state(node_name)
check_state(g, ns, node_name, time) ==
    LET node == ns[node_name]
        max_check_time == Max(node.last_calibration, node.last_check)
    IN  /\ ~(time - max_check_time >= node.timeout)
        /\ ~\E i \in 1..Len(g[node_name]) :
               ns[g[node_name][i]].last_calibration > max_check_time

\* a _check_failure that looks at the node's own check only
check_failure_of_node_only(g, ns, node_name, time) ==
    LET r == Node_check_data(ns[node_name], time)
    IN  [ failed |-> r.failed,
          nodes |-> [ns EXCEPT ![node_name] = r.node] ]

\* _check_failure(node): the returned value and the nodes afterwards
check_failure(g, ns, node_name, time) ==
    LET r == Node_check_data(ns[node_name], time)
        ns1 == [ns EXCEPT ![node_name] = r.node]
        dependencies == get_all_dependencies(g, node_name)
    IN  [ failed |-> \/ r.failed
                     \/ \E i \in 1..Len(dependencies) : ns1[dependencies[i]].failed,
          nodes |-> ns1 ]

\* a check_data_results entry; **node_check_data comes last in the dict
\* display, so its 'failure_magnitude' key overrides the one written before it
CheckResult(wave, check_node, failure_magnitude, node_check_data) ==
    [ wave |-> wave,
      node |-> check_node,
      check_type |-> "check_data",
      failure_magnitude |-> node_check_data.failure_magnitude,
      data |-> node_check_data.data ]

\* a sub-wave id that counts the offset in whole time units
SubWave_in_time_units(time, check_offest) == time + check_offest * Milli

\* a sub-wave id that leaves the offset out
SubWave_without_offset(time, check_offest) == time

\* the sub-wave id current_time + check_offest * 0.001
SubWave(time, check_offest) == time + check_offest

\* _simulate_failures: every node's simulate_failure(), once; the nodes from
\* position i of the dict on
RECURSIVE SimulateOnce(_, _, _)
SimulateOnce(ns, names, i) ==
    IF i > Len(names) THEN {ns}
    ELSE UNION { SimulateOnce([ns EXCEPT ![names[i]] = n], names, i + 1)
                 : n \in simulate_failure(ns[names[i]]) }

\* _simulate_failures: for step in range(self.time_step)
RECURSIVE simulate_failures(_, _, _)
simulate_failures(ns, names, steps) ==
    IF steps = 0 THEN {ns}
    ELSE UNION { simulate_failures(ns1, names, steps - 1)
                 : ns1 \in SimulateOnce(ns, names, 1) }

(***************************************************************************)
(* Simulations: the graphs and node sets the simulator is built from       *)
(* (examples/simulator/simulations.py gives the shape of the first)        *)
(***************************************************************************)
A == <<"A">>
B == <<"B">>
C == <<"C">>
D == <<"D">>
V == <<"V">>
AB == <<"A", "B">>
N1 == <<"n", "1">>

\* a simulator argument list: QuantumCalibrationSimulator(graph, nodes, root_nodes, time_step)
Simulation(g, names, ns, roots, step) ==
    [graph |-> g, node_names |-> names, nodes |-> ns, root_nodes |-> roots,
     time_step |-> step]

\* C -> B -> A, root C (simple_sim1), timeouts t(A), t(B), t(C)
ChainSim(ta, tb, tc, pa, pb, pc_) ==
    Simulation(A :> <<>> @@ B :> <<A>> @@ C :> <<B>>,
               <<A, B, C>>,
               A :> SimpleNode(ta * Milli, pa) @@ B :> SimpleNode(tb * Milli, pb)
                 @@ C :> SimpleNode(tc * Milli, pc_),
               <<C>>, 1)

\* D -> B -> A and D -> C -> A, root D
DiamondSim ==
    Simulation(A :> <<>> @@ B :> <<A>> @@ C :> <<A>> @@ D :> <<B, C>>,
               <<A, B, C, D>>,
               A :> SimpleNode(2 * Milli, 5) @@ B :> SimpleNode(2 * Milli, 10)
                 @@ C :> SimpleNode(2 * Milli, 0) @@ D :> SimpleNode(1 * Milli, 0),
               <<D>>, 1)

\* a VirtualConnectionNode V joining A and B: V -> A, V -> B, root V
VirtualSim ==
    Simulation(A :> <<>> @@ B :> <<>> @@ V :> <<A, B>>,
               <<A, B, V>>,
               A :> SimpleNode(2 * Milli, 10) @@ B :> SimpleNode(2 * Milli, 10)
                 @@ V :> VirtualConnectionNode(1 * Milli),
               <<V>>, 1)

\* node names of more than one character: C -> n1, root C
LongNameSim ==
    Simulation(C :> <<N1>> @@ N1 :> <<>>,
               <<C, N1>>,
               C :> SimpleNode(1 * Milli, 10) @@ N1 :> SimpleNode(2 * Milli, 10),
               <<C>>, 1)

\* a name whose characters are names of other nodes: AB -> A, and B, root AB
PrefixNameSim ==
    Simulation(A :> <<>> @@ B :> <<>> @@ AB :> <<A>>,
               <<A, B, AB>>,
               A :> SimpleNode(3 * Milli, 10) @@ B :> SimpleNode(3 * Milli, 0)
                 @@ AB :> SimpleNode(1 * Milli, 0),
               <<AB>>, 1)

\* one SimpleNode(failure_prob=0) with timeout t, time_step step
SingleSim(t, step) ==
    Simulation(A :> <<>>, <<A>>, A :> SimpleNode(t * Milli, 0), <<A>>, step)

Simulations ==
    { ChainSim(2, 1, 3, 10, 20, 0), ChainSim(1, 3, 1, 10, 20, 0),
      ChainSim(0, 0, 0, 10, 0, 30),
      DiamondSim, VirtualSim, LongNameSim, PrefixNameSim }
    \cup { SingleSim(t, step) : t \in 2..3, step \in 1..2 }

(***************************************************************************)
(* The simulator as a state machine                                        *)
(***************************************************************************)
NoCall == [fn |-> "none"]

\* QuantumCalibrationSimulator.__init__
Init ==
    \E sim \in Simulations :
        /\ graph = sim.graph
        /\ root_nodes = sim.root_nodes
        /\ time_step = sim.time_step
        /\ node_names = sim.node_names
        /\ nodes = sim.nodes
        /\ wave_data = <<>>
        /\ check_data_results = <<>>
        /\ ground_truth = <<>>
        /\ wave_offset = 0
        /\ current_time = 0
        /\ pc = "loop"
        /\ timed_out_nodes = <<>>
        /\ submitted_nodes = <<>>
        /\ sub_idx = 1
        /\ stack = <<>>
        /\ input = NoCall
        /\ output = NoCall

\* the while test of simulate(total_time_steps), for some call of it
LoopTest == \E total_time_steps \in 1..MaxTime : current_time < total_time_steps * Milli

\* simulate() Step 0: the ground truth entry of this step
GroundTruthEntry ==
    [time |-> current_time,
     correct |-> [n \in SeqToSet(node_names) |-> ~nodes[n].failed]]

\* simulate() Steps 0-2 of a step in which no node has timed out
BeginStepQuiet ==
    /\ pc = "loop"
    /\ LoopTest
    /\ TimedOutNodes(nodes, node_names, current_time) = <<>>
    /\ ground_truth' = Append(ground_truth, GroundTruthEntry)
    /\ timed_out_nodes' = <<>>
    /\ submitted_nodes' = <<>>
    /\ wave_offset' = 0
    /\ sub_idx' = 1
    /\ pc' = "check"
    /\ UNCHANGED <<graph, root_nodes, time_step, node_names, nodes, wave_data,
                   check_data_results, current_time, stack, input, output>>

\* simulate() Steps 0-2 of a step in which some node has timed out
BeginStepTrigger ==
    /\ pc = "loop"
    /\ LoopTest
    /\ LET timed_out == TimedOutNodes(nodes, node_names, current_time)
           r == submit_timed_trigger(graph, nodes, root_nodes, timed_out, current_time)
       IN  /\ timed_out # <<>>
           /\ ~r.raised
           /\ timed_out_nodes' = timed_out
           /\ nodes' = r.nodes
           /\ wave_data' = wave_data \o r.wave_data
           /\ submitted_nodes' = r.submitted_nodes
    /\ ground_truth' = Append(ground_truth, GroundTruthEntry)
    /\ wave_offset' = 0
    /\ sub_idx' = 1
    /\ pc' = "check"
    /\ UNCHANGED <<graph, root_nodes, time_step, node_names,
                   check_data_results, current_time, stack, input, output>>

\* simulate() Steps 0-2 when _submit_timed_trigger raises KeyError: the
\* exception leaves simulate(); no wave is recorded
BeginStepKeyError ==
    /\ pc = "loop"
    /\ LoopTest
    /\ LET timed_out == TimedOutNodes(nodes, node_names, current_time)
           r == submit_timed_trigger(graph, nodes, root_nodes, timed_out, current_time)
       IN  /\ timed_out # <<>>
           /\ r.raised
           /\ timed_out_nodes' = timed_out
           /\ nodes' = r.nodes
    /\ ground_truth' = Append(ground_truth, GroundTruthEntry)
    /\ pc' = "crashed"
    /\ UNCHANGED <<graph, root_nodes, time_step, node_names, wave_data,
                   check_data_results, wave_offset, current_time,
                   submitted_nodes, sub_idx, stack, input, output>>

\* the activation record of _check_node on top of the stack
Top == stack[Len(stack)]

\* a call of _check_node is about to be made: by simulate() Step 3 when no
\* activation is open, by the successor loop of the open activation otherwise
CanCall ==
    /\ pc = "check"
    /\ IF stack = <<>> THEN sub_idx <= Len(submitted_nodes)
       ELSE Top.idx <= Len(Top.successors)

\* its arguments check_node and diagnosis
CallNode == IF stack = <<>> THEN submitted_nodes[sub_idx] ELSE Top.successors[Top.idx]

CallDiagnosis == stack # <<>>

\* _check_node returns (wd, cr) to the caller whose activations are stk:
\* simulate() appends to the logs, the successor loop to its local lists
Return(stk, wd, cr) ==
    IF stk = <<>>
    THEN /\ wave_data' = wave_data \o wd
         /\ check_data_results' = check_data_results \o cr
         /\ sub_idx' = sub_idx + 1
         /\ stack' = <<>>
    ELSE /\ stack' = [stk EXCEPT ![Len(stk)] =
                        [@ EXCEPT !.wave_data = @ \o wd,
                                  !.check_data_results = @ \o cr,
                                  !.idx = @ + 1]]
         /\ UNCHANGED <<wave_data, check_data_results, sub_idx>>

\* _check_node, not diagnosing, _check_state true: assumed in spec
CheckAssumedInSpec ==
    /\ CanCall
    /\ ~CallDiagnosis
    /\ check_state(graph, nodes, CallNode, current_time)
    /\ wave_offset' = wave_offset + 1
    /\ Return(stack, <<>>, <<>>)
    /\ UNCHANGED <<graph, root_nodes, time_step, node_names, nodes, ground_truth,
                   current_time, pc, timed_out_nodes, submitted_nodes, input, output>>

\* the nodes once _check_node has set last_check
WithLastCheck(ns, check_node, time) == [ns EXCEPT ![check_node].last_check = time]

\* _check_node, check_data evaluated and passed
CheckPassed ==
    /\ CanCall
    /\ CallDiagnosis \/ ~check_state(graph, nodes, CallNode, current_time)
    /\ LET check_offest == wave_offset + 1
           ns1 == WithLastCheck(nodes, CallNode, current_time)
           node_check_data == get_check_data(ns1[CallNode])
           r == check_failure(graph, ns1, CallNode, current_time)
       IN  /\ ~r.failed
           /\ nodes' = r.nodes
           /\ Return(stack, <<>>,
                     << CheckResult(SubWave(current_time, check_offest), CallNode,
                                    0, node_check_data) >>)
    /\ wave_offset' = wave_offset + 1
    /\ UNCHANGED <<graph, root_nodes, time_step, node_names, ground_truth,
                   current_time, pc, timed_out_nodes, submitted_nodes, input, output>>

\* _check_node, check_data evaluated and failed: the diagnosis wave starts
CheckFailed ==
    /\ CanCall
    /\ CallDiagnosis \/ ~check_state(graph, nodes, CallNode, current_time)
    /\ LET check_offest == wave_offset + 1
           ns1 == WithLastCheck(nodes, CallNode, current_time)
           node_check_data == get_check_data(ns1[CallNode])
           r == check_failure(graph, ns1, CallNode, current_time)
       IN  /\ r.failed
           /\ nodes' = r.nodes
           /\ stack' = Append(stack,
                  [ check_node |-> CallNode,
                    diagnosis |-> CallDiagnosis,
                    check_offest |-> check_offest,
                    node_check_data |-> node_check_data,
                    successors |-> graph[CallNode],
                    idx |-> 1,
                    wave_data |-> <<>>,
                    check_data_results |-> <<>> ])
    /\ wave_offset' = wave_offset + 1
    /\ UNCHANGED <<graph, root_nodes, time_step, node_names, wave_data,
                   check_data_results, ground_truth, current_time, pc,
                   timed_out_nodes, submitted_nodes, sub_idx, input, output>>

\* the diagnosis WaveEvent of a failed node
DiagnosisWave(wave, check_node, successors) ==
    [ wave |-> wave,
      timed_trigger |-> FALSE,
      root_nodes |-> list_of_str(check_node),
      submitted_nodes |-> successors ]

\* _check_node of a failed node after its successor loop: calibrate, emit
FinishDiagnosis ==
    /\ pc = "check"
    /\ stack # <<>>
    /\ Top.idx > Len(Top.successors)
    /\ LET f == Top
           failure_magnitude == nodes[f.check_node].failure_magnitude
           wave == SubWave(current_time, f.check_offest)
       IN  /\ nodes' = [nodes EXCEPT ![f.check_node] = calibrate(@, current_time)]
           /\ Return(SubSeq(stack, 1, Len(stack) - 1),
                     f.wave_data \o
                        << DiagnosisWave(wave, f.check_node, f.successors) >>,
                     f.check_data_results \o
                        << CheckResult(wave, f.check_node, failure_magnitude,
                                       f.node_check_data) >>)
    /\ UNCHANGED <<graph, root_nodes, time_step, node_names, ground_truth,
                   wave_offset, current_time, pc, timed_out_nodes,
                   submitted_nodes, input, output>>

\* simulate() Step 4: _simulate_failures() and current_time += time_step
AdvanceStep ==
    /\ pc = "check"
    /\ stack = <<>>
    /\ sub_idx > Len(submitted_nodes)
    /\ \E ns \in simulate_failures(nodes, node_names, time_step) : nodes' = ns
    /\ current_time' = current_time + time_step * Milli
    /\ pc' = "loop"
    /\ timed_out_nodes' = <<>>
    /\ submitted_nodes' = <<>>
    /\ sub_idx' = 1
    /\ UNCHANGED <<graph, root_nodes, time_step, node_names, wave_data,
                   check_data_results, ground_truth, wave_offset, stack,
                   input, output>>

Next ==
    \/ BeginStepQuiet
    \/ BeginStepTrigger
    \/ BeginStepKeyError
    \/ CheckAssumedInSpec
    \/ CheckPassed
    \/ CheckFailed
    \/ FinishDiagnosis
    \/ AdvanceStep

Spec == Init /\ [][Next]_vars

(***************************************************************************)
(* The logs as they will stand once the open activations have returned     *)
(* what they hold so far: each activation's local lists are appended to    *)
(* its caller's, the outermost one's to the simulator's logs               *)
(***************************************************************************)
RECURSIVE LocalWaveData(_, _)
LocalWaveData(stk, i) ==
    IF i > Len(stk) THEN <<>> ELSE stk[i].wave_data \o LocalWaveData(stk, i + 1)

RECURSIVE LocalCheckData(_, _)
LocalCheckData(stk, i) ==
    IF i > Len(stk) THEN <<>>
    ELSE stk[i].check_data_results \o LocalCheckData(stk, i + 1)

EmittedWaveData == wave_data \o LocalWaveData(stack, 1)

EmittedCheckData == check_data_results \o LocalCheckData(stack, 1)

(***************************************************************************)
(* C1                                                                      *)
(***************************************************************************)
\* the transitive successor closure of n in post-order, every path expanded
RECURSIVE ClosurePostOrder(_, _, _)
ClosurePostOrder(g, n, i) ==
    IF i > Len(g[n]) THEN <<>>
    ELSE ClosurePostOrder(g, g[n][i], 1) \o <<g[n][i]>> \o ClosurePostOrder(g, n, i + 1)

\* over the timed out nodes from position i on: closure, then the node itself
RECURSIVE ClosuresThenSelf(_, _, _)
ClosuresThenSelf(g, timed_out, i) ==
    IF i > Len(timed_out) THEN <<>>
    ELSE ClosurePostOrder(g, timed_out[i], 1) \o <<timed_out[i]>>
             \o ClosuresThenSelf(g, timed_out, i + 1)

ExpectedSubmitted(g, timed_out) == dict_fromkeys(ClosuresThenSelf(g, timed_out, 1))

\* the step's timed-trigger event has just been emitted
TriggerJustEmitted ==
    pc = "check" /\ timed_out_nodes # <<>> /\ wave_offset = 0 /\ stack = <<>>

\* C1: in every outer step in which some node has timed out a timed-trigger
\* WaveEvent is emitted, and its submitted_nodes is the duplicate-free
\* first-seen-order union, over the timed out nodes in node-map order, of the
\* node's successor closure in post-order followed by the node's identifier
\* as one element; for C -> B -> A with all three timed out it is [A, B, C].
C1_SubmittedNodesAreClosures ==
    /\ pc # "crashed"
    /\ TriggerJustEmitted =>
         /\ wave_data # <<>>
         /\ Last(wave_data).timed_trigger
         /\ Last(wave_data).wave = current_time
         /\ Last(wave_data).submitted_nodes
                = ExpectedSubmitted(graph, TimedOutNodes(nodes, node_names, current_time))
         /\ (node_names = <<A, B, C>> /\ timed_out_nodes = <<A, B, C>>
                /\ graph[C] = <<B>> /\ graph[B] = <<A>> /\ graph[A] = <<>>)
              => Last(wave_data).submitted_nodes = <<A, B, C>>

\* the same statement over node maps whose identifiers are single characters
C1_HoldsForOneCharacterNames ==
    (\A i \in 1..Len(node_names) : Len(node_names[i]) = 1)
        => C1_SubmittedNodesAreClosures

(***************************************************************************)
(* C2                                                                      *)
(***************************************************************************)
\* an activation of _check_node that found its node failed is returning
DiagnosisReturns == Len(stack') < Len(stack)

\* C2: when the protocol has found a checked node failed, every direct
\* successor has been run through the protocol in diagnosis mode (it was
\* checked in this step and its CheckResult is among the events the node's
\* activation has gathered) before the node is calibrated, and the node's
\* activation then emits exactly one timed_trigger=false WaveEvent, with
\* root_nodes the one-element list of the node's identifier and
\* submitted_nodes its direct successors, and exactly one CheckResult for the
\* node with the same wave and the node's pre-calibration failure_magnitude.
C2_FailedNodeDiagnosis ==
    [][ DiagnosisReturns =>
          LET f == Top
              n == f.check_node
              wave == current_time + f.check_offest
          IN  /\ \A i \in 1..Len(graph[n]) :
                    /\ nodes[graph[n][i]].last_check = current_time
                    /\ \E k \in 1..Len(f.check_data_results) :
                          /\ f.check_data_results[k].node = graph[n][i]
                          /\ f.check_data_results[k].wave > wave
              /\ nodes[n].failure_magnitude = f.node_check_data.failure_magnitude
              /\ nodes[n].kind # "VirtualConnectionNode" =>
                    /\ nodes'[n].last_calibration = current_time
                    /\ ~nodes'[n].failed
              /\ EmittedWaveData' = Append(EmittedWaveData,
                    [ wave |-> wave,
                      timed_trigger |-> FALSE,
                      root_nodes |-> <<n>>,
                      submitted_nodes |-> graph[n] ])
              /\ Len(EmittedCheckData') = Len(EmittedCheckData) + 1
              /\ SubSeq(EmittedCheckData', 1, Len(EmittedCheckData)) = EmittedCheckData
              /\ Last(EmittedCheckData').node = n
              /\ Last(EmittedCheckData').wave = wave
              /\ Last(EmittedCheckData').check_type = "check_data"
              /\ Last(EmittedCheckData').failure_magnitude = nodes[n].failure_magnitude
      ]_vars

\* the same statement over node maps whose identifiers are single characters
C2_HoldsForOneCharacterNames ==
    [][ (\A i \in 1..Len(node_names) : Len(node_names[i]) = 1)
            => (DiagnosisReturns =>
                  LET f == Top
                      n == f.check_node
                      wave == current_time + f.check_offest
                  IN  /\ \A i \in 1..Len(graph[n]) :
                            nodes[graph[n][i]].last_check = current_time
                      /\ EmittedWaveData' = Append(EmittedWaveData,
                            [ wave |-> wave,
                              timed_trigger |-> FALSE,
                              root_nodes |-> <<n>>,
                              submitted_nodes |-> graph[n] ])
                      /\ Len(EmittedCheckData') = Len(EmittedCheckData) + 1
                      /\ Last(EmittedCheckData').node = n
                      /\ Last(EmittedCheckData').wave = wave
                      /\ Last(EmittedCheckData').failure_magnitude
                             = nodes[n].failure_magnitude)
      ]_vars

(***************************************************************************)
(* C3                                                                      *)
(***************************************************************************)
\* the condition under which a non-diagnostic check is short-circuited
AssumedInSpec(n) ==
    LET reference == Max(nodes[n].last_calibration, nodes[n].last_check)
    IN  /\ ~CallDiagnosis
        /\ current_time - reference < nodes[n].timeout
        /\ \A i \in 1..Len(graph[n]) :
              ~(nodes[graph[n][i]].last_calibration > reference)

\* C3: a non-diagnostic check of a node whose timeout has not elapsed since
\* max(last_calibration, last_check) and none of whose direct successors was
\* calibrated after that time emits no WaveEvent and no CheckResult and
\* leaves the node's last_check, last_calibration, failed and timeout as
\* they were; in every other case, and always in diagnosis mode, check_data
\* is evaluated (its result is emitted, or the diagnosis wave of the node is
\* opened) and last_check becomes current_time.
C3_ShortCircuitFrame ==
    [][ CanCall =>
          LET n == CallNode
          IN  IF AssumedInSpec(n)
              THEN /\ EmittedWaveData' = EmittedWaveData
                   /\ EmittedCheckData' = EmittedCheckData
                   /\ stack' = stack
                   /\ nodes'[n].last_check = nodes[n].last_check
                   /\ nodes'[n].last_calibration = nodes[n].last_calibration
                   /\ nodes'[n].failed = nodes[n].failed
                   /\ nodes'[n].timeout = nodes[n].timeout
              ELSE /\ nodes'[n].last_check = current_time
                   /\ \/ /\ Len(EmittedCheckData') = Len(EmittedCheckData) + 1
                         /\ SubSeq(EmittedCheckData', 1, Len(EmittedCheckData))
                                = EmittedCheckData
                         /\ Last(EmittedCheckData').node = n
                         /\ Len(stack') = Len(stack)
                      \/ /\ Len(stack') = Len(stack) + 1
                         /\ stack'[Len(stack')].check_node = n
                         /\ EmittedCheckData' = EmittedCheckData
      ]_vars

\* the first submitted node of a step has been short-circuited: the counter
\* has advanced and the step has no CheckResult
C3_Witness ==
    /\ pc = "check"
    /\ stack = <<>>
    /\ sub_idx = 2
    /\ wave_offset = 1
    /\ current_time > 0
    /\ nodes[submitted_nodes[1]].last_check < current_time
    /\ \A i \in 1..Len(check_data_results) :
          check_data_results[i].wave < current_time

\* the other case: B, whose timeout has not elapsed, was evaluated without
\* diagnosis because its successor A had been calibrated in this step
C3_EvaluatedAfterSuccessorCalibration ==
    /\ pc = "check"
    /\ stack = <<>>
    /\ sub_idx = 3
    /\ node_names = <<A, B, C>>
    /\ submitted_nodes = <<A, B, C>>
    /\ nodes[A].last_calibration = current_time
    /\ nodes[B].last_check = current_time
    /\ current_time < nodes[B].timeout

(***************************************************************************)
(* C4                                                                      *)
(***************************************************************************)
\* the events of the running step: those at or after the step's trigger wave
StepEvents(log) == { i \in 1..Len(log) : log[i].wave >= current_time }

\* C4, state part: within an outer step the sub-wave ids of the open
\* activations increase strictly with the nesting, none exceeds the counter,
\* no two WaveEvents and no two CheckResults of the step share a wave value,
\* only the trigger has the trigger's wave value, and every event an
\* activation has gathered from diagnosing its successors has a greater
\* wave value than the activation's own.
C4_StepWaves ==
    pc = "check" =>
        /\ \A i \in 1..Len(stack) :
              /\ stack[i].check_offest >= 1
              /\ stack[i].check_offest <= wave_offset
              /\ i > 1 => stack[i].check_offest > stack[i - 1].check_offest
              /\ \A k \in 1..Len(stack[i].wave_data) :
                    stack[i].wave_data[k].wave > current_time + stack[i].check_offest
              /\ \A k \in 1..Len(stack[i].check_data_results) :
                    stack[i].check_data_results[k].wave
                        > current_time + stack[i].check_offest
        /\ \A i, j \in StepEvents(EmittedWaveData) :
              i # j => EmittedWaveData[i].wave # EmittedWaveData[j].wave
        /\ \A i, j \in StepEvents(EmittedCheckData) :
              i # j => EmittedCheckData[i].wave # EmittedCheckData[j].wave
        /\ \A i \in StepEvents(EmittedWaveData) :
              /\ EmittedWaveData[i].wave <= current_time + wave_offset
              /\ EmittedWaveData[i].timed_trigger <=> EmittedWaveData[i].wave = current_time
        /\ \A i \in StepEvents(EmittedCheckData) :
              /\ EmittedCheckData[i].wave > current_time
              /\ EmittedCheckData[i].wave <= current_time + wave_offset

\* C4: the state part always holds, every entry into the protocol takes the
\* next sub-wave id, and the diagnosis WaveEvent of a failed node is appended
\* after the events of its successors' diagnoses, which all have greater
\* wave values.
C4_SubWavesIncrease ==
    /\ []C4_StepWaves
    /\ [][ /\ CanCall => wave_offset' = wave_offset + 1
           /\ (CanCall /\ Len(stack') > Len(stack)) =>
                 stack'[Len(stack')].check_offest = wave_offset + 1
           /\ (CanCall /\ Len(EmittedCheckData') > Len(EmittedCheckData)) =>
                 Last(EmittedCheckData').wave = current_time + wave_offset + 1
           /\ DiagnosisReturns =>
                 /\ Last(EmittedWaveData').wave = current_time + Top.check_offest
                 /\ \A k \in 1..Len(Top.wave_data) :
                       /\ Top.wave_data[k].wave > Last(EmittedWaveData').wave
                       /\ \E i \in 1..(Len(EmittedWaveData') - 1) :
                             EmittedWaveData'[i] = Top.wave_data[k]
         ]_vars

\* a failed node's diagnosis event follows, in the log, a successor's
\* diagnosis event of greater wave value
C4_Witness ==
    /\ pc = "check"
    /\ Len(wave_data) >= 3
    /\ ~wave_data[Len(wave_data)].timed_trigger
    /\ ~wave_data[Len(wave_data) - 1].timed_trigger
    /\ wave_data[Len(wave_data) - 1].wave > wave_data[Len(wave_data)].wave
    /\ wave_data[Len(wave_data)].wave > current_time

(***************************************************************************)
(* C5                                                                      *)
(***************************************************************************)
\* no node satisfies current_time - last_check >= timeout
NoNodeTimedOut ==
    \A i \in 1..Len(node_names) :
        current_time - nodes[node_names[i]].last_check < nodes[node_names[i]].timeout

\* the simulator holds one SimpleNode with failure_prob = 0 and has run no
\* step at or after that node's timeout
OnePassingNodeBeforeTimeout ==
    /\ Len(node_names) = 1
    /\ nodes[node_names[1]].kind = "SimpleNode"
    /\ nodes[node_names[1]].failure_prob = 0
    /\ \A i \in 1..Len(ground_truth) :
          ground_truth[i].time < nodes[node_names[1]].base_timeout

\* C5: an outer step in which no node satisfies current_time - last_check >=
\* timeout emits no WaveEvent and no CheckResult (it submits nothing, so the
\* logs are the same when the step ends); a simulator holding one
\* SimpleNode(failure_prob=0) with timeout T has empty logs as long as every
\* step it has run began before T, as after simulate(n) with n < T.
C5_NoTimeoutNoEvents ==
    /\ [][ /\ (pc = "loop" /\ NoNodeTimedOut) =>
                 /\ wave_data' = wave_data
                 /\ check_data_results' = check_data_results
                 /\ submitted_nodes' = <<>>
                 /\ stack' = <<>>
           /\ (pc = "check" /\ submitted_nodes = <<>>) =>
                 /\ wave_data' = wave_data
                 /\ check_data_results' = check_data_results
                 /\ pc' = "loop"
         ]_vars
    /\ [](OnePassingNodeBeforeTimeout =>
             wave_data = <<>> /\ check_data_results = <<>>)

\* two steps have run without any node timing out, in a simulator of one
\* passing node and in one of several nodes
C5_Witness ==
    /\ pc = "loop"
    /\ Len(ground_truth) = 2
    /\ wave_data = <<>>
    /\ check_data_results = <<>>
    /\ OnePassingNodeBeforeTimeout
    /\ current_time < nodes[node_names[1]].base_timeout

\* the two ways a call ends: with an exception, or with a value
Raise(exception) == [raised |-> exception]

Return_(value) == [raised |-> "None", value |-> value]

(***************************************************************************)
(* Wave-log analysis (util.py, base_failure.py / data_analysis.py)         *)
(***************************************************************************)
\* validate_wave_data: every entry has the four keys, of the expected types
validate_wave_data(data) ==
    \A i \in 1..Len(data) :
        /\ {"wave", "timed_trigger", "root_nodes", "submitted_nodes"} \subseteq DOMAIN data[i]
        /\ data[i].wave \in Int
        /\ data[i].timed_trigger \in BOOLEAN

\* one step of a stable insertion: entry goes behind every entry of s whose
\* wave is not greater than its own
RECURSIVE InsertByWave(_, _, _)
InsertByWave(s, entry, i) ==
    IF i > Len(s) \/ s[i].wave > entry.wave
    THEN SubSeq(s, 1, i - 1) \o <<entry>> \o SubSeq(s, i, Len(s))
    ELSE InsertByWave(s, entry, i + 1)

\* sorted(wave_data, key=lambda x: x['wave']): ascending and stable
RECURSIVE SortedFrom(_, _, _)
SortedFrom(data, i, acc) ==
    IF i > Len(data) THEN acc
    ELSE SortedFrom(data, i + 1, InsertByWave(acc, data[i], 1))

sorted_by_wave(data) == SortedFrom(data, 1, <<>>)

\* the for loop of split_data_by_wave and the append that follows it
RECURSIVE SplitLoop(_, _, _, _)
SplitLoop(sorted_data, i, split_data, current_list) ==
    IF i > Len(sorted_data)
    THEN IF current_list # <<>> THEN Append(split_data, current_list) ELSE split_data
    ELSE IF sorted_data[i].timed_trigger
         THEN SplitLoop(sorted_data, i + 1,
                        IF current_list # <<>> THEN Append(split_data, current_list)
                                               ELSE split_data,
                        <<sorted_data[i]>>)
         ELSE SplitLoop(sorted_data, i + 1, split_data,
                        Append(current_list, sorted_data[i]))

split_data_by_wave(data) == SplitLoop(sorted_by_wave(data), 1, <<>>, <<>>)

\* graph.successors(node), graph.predecessors(node), graph.nodes
successors(g, node) == SeqToSet(g[node])

predecessors(g, node) == {p \in DOMAIN g : node \in SeqToSet(g[p])}

\* failed_nodes: the root_nodes of the entries that are not timed triggers
failed_nodes_of(data) ==
    UNION {SeqToSet(data[i].root_nodes) : i \in {j \in 1..Len(data) : ~data[j].timed_trigger}}

\* downstream_nodes: the submitted nodes of timed triggers that failed
downstream_nodes_of(data, failed_nodes) ==
    {node \in UNION {SeqToSet(data[i].submitted_nodes) :
                        i \in {j \in 1..Len(data) : data[j].timed_trigger}} :
        node \in failed_nodes}

\* a variant of remove_intermediate that removes nothing
keep_intermediate(g, downstream_nodes, failed_nodes) == downstream_nodes

\* the removal of the downstream nodes that have a failed direct predecessor
remove_intermediate(g, downstream_nodes, failed_nodes) ==
    {node \in downstream_nodes :
        ~\E predecessor \in predecessors(g, node) : predecessor \in failed_nodes}

\* a variant of _find_base_cause that follows every successor
find_base_cause_any_successor(node, failed_nodes, g) ==
    IF successors(g, node) # {} THEN successors(g, node) ELSE {node}

\* _find_base_cause; the list it returns is built from a set, and is a set here
RECURSIVE find_base_cause(_, _, _)
find_base_cause(node, failed_nodes, g) ==
    LET failed_successors == {s \in successors(g, node) : s \in failed_nodes}
    IN  IF failed_successors # {}
        THEN UNION {find_base_cause(s, failed_nodes, g) : s \in failed_successors}
        ELSE {node}

\* find_base_failure_for_wave / _find_base_failure: downstream node -> base causes
find_base_failure_for_wave(data, g) ==
    LET failed_nodes == failed_nodes_of(data)
        downstream_nodes ==
            remove_intermediate(g, downstream_nodes_of(data, failed_nodes), failed_nodes)
    IN  [node \in downstream_nodes |-> find_base_cause(node, failed_nodes, g)]

\* the update of base_failure_stats (a defaultdict of defaultdict(int)) with the
\* attribution of one propagation: base_failure_stats[node][cause] += 1
UpdateStats(stats, base_failures) ==
    [node \in DOMAIN stats \cup DOMAIN base_failures |->
        LET old == IF node \in DOMAIN stats THEN stats[node] ELSE <<>>
            base_causes == IF node \in DOMAIN base_failures THEN base_failures[node] ELSE {}
        IN  [cause \in DOMAIN old \cup base_causes |->
                (IF cause \in DOMAIN old THEN old[cause] ELSE 0)
                + (IF cause \in base_causes THEN 1 ELSE 0)]]

\* the for loop of find_base_failures over the propagations
RECURSIVE StatsLoop(_, _, _, _)
StatsLoop(split_wave_data, i, g, base_failure_stats) ==
    IF i > Len(split_wave_data) THEN base_failure_stats
    ELSE StatsLoop(split_wave_data, i + 1, g,
                   UpdateStats(base_failure_stats,
                               find_base_failure_for_wave(split_wave_data[i], g)))

\* find_base_failures: downstream node -> base cause -> number of propagations
find_base_failures(data, g) == StatsLoop(split_data_by_wave(data), 1, g, <<>>)

(***************************************************************************)
(* Co-occurrence of failures (data_analysis.py / data_processing.py)       *)
(***************************************************************************)
\* ord(c) of the characters that node identifiers are made of
ord == ("1" :> 49) @@ ("A" :> 65) @@ ("B" :> 66) @@ ("C" :> 67) @@ ("D" :> 68)
           @@ ("V" :> 86) @@ ("n" :> 110)

\* a <= b for Python strings: lexicographic by character code
RECURSIVE str_le(_, _)
str_le(a, b) ==
    IF a = <<>> THEN TRUE
    ELSE IF b = <<>> THEN FALSE
    ELSE IF a[1] # b[1] THEN ord[a[1]] < ord[b[1]]
    ELSE str_le(Tail(a), Tail(b))

\* tuple(sorted((node1, node2)))
sorted_pair(node1, node2) ==
    IF str_le(node1, node2) THEN <<node1, node2>> ELSE <<node2, node1>>

\* the keys that combinations(l, 2) yields, one per pair of positions i < j
combinations_2(l) ==
    [p \in {q \in (1..Len(l)) \X (1..Len(l)) : q[1] < q[2]} |-> sorted_pair(l[p[1]], l[p[2]])]

\* a variant of failing_nodes_of that takes the root_nodes of every event
RECURSIVE root_nodes_of_every_event(_)
root_nodes_of_every_event(wave) ==
    IF wave = <<>> THEN <<>>
    ELSE wave[1].root_nodes \o root_nodes_of_every_event(Tail(wave))

\* failing_nodes of one propagation: the root_nodes of its diagnosis events
RECURSIVE failing_nodes_of(_)
failing_nodes_of(wave) ==
    IF wave = <<>> THEN <<>>
    ELSE (IF wave[1].timed_trigger THEN <<>> ELSE wave[1].root_nodes)
             \o failing_nodes_of(Tail(wave))

\* the loop of find_co_occurring_failures over the propagations;
\* cooccurrence_matrix[pair] += 1 raises KeyError for a pair that is no key
RECURSIVE CooccurrenceLoop(_, _, _)
CooccurrenceLoop(split_wave_data, i, cooccurrence_matrix) ==
    IF i > Len(split_wave_data) THEN Return_(cooccurrence_matrix)
    ELSE LET pairs == combinations_2(failing_nodes_of(split_wave_data[i]))
         IN  IF \E p \in DOMAIN pairs : pairs[p] \notin DOMAIN cooccurrence_matrix
             THEN Raise("KeyError")
             ELSE CooccurrenceLoop(split_wave_data, i + 1,
                      [pair \in DOMAIN cooccurrence_matrix |->
                          cooccurrence_matrix[pair]
                              + Cardinality({p \in DOMAIN pairs : pairs[p] = pair})])

\* find_co_occurring_failures(wave_data, nodes)
find_co_occurring_failures(data, node_list) ==
    LET keys == combinations_2(node_list)
    IN  CooccurrenceLoop(split_data_by_wave(data), 1,
                         [pair \in {keys[p] : p \in DOMAIN keys} |-> 0])

(***************************************************************************)
(* The analysis functions applied to bounded wave logs                     *)
(***************************************************************************)
\* a wave log holds at most MaxEvents entries
MaxEvents == 4

\* the node graphs: C -> B -> A of the fixtures, and D -> {B, C} -> A, in which
\* a node has two successors and a node has two predecessors
ChainGraph == (A :> <<>>) @@ (B :> <<A>>) @@ (C :> <<B>>)

DiamondGraph == (A :> <<>>) @@ (B :> <<A>>) @@ (C :> <<A>>) @@ (D :> <<B, C>>)

WaveEvent(wave, timed_trigger, roots, submitted) ==
    [wave |-> wave, timed_trigger |-> timed_trigger,
     root_nodes |-> roots, submitted_nodes |-> submitted]

\* fetch_manual_data(2): B timed out and failed, its successor A passed
Fixture2 ==
    << WaveEvent(1000, TRUE, <<C>>, <<A, B>>),
       WaveEvent(1001, FALSE, <<B>>, <<A>>) >>

\* the wave values of the logs
EventWaves == {1000, 1001, 1002, 2000}

\* the events of the logs over C -> B -> A: a trigger as in Fixture2 or the
\* diagnosis of B, at each wave value
ChainEvents ==
    {WaveEvent(w, TRUE, <<C>>, <<A, B>>) : w \in EventWaves}
        \cup {WaveEvent(w, FALSE, <<B>>, <<A>>) : w \in EventWaves}

RECURSIVE SeqsUpTo(_, _)
SeqsUpTo(S, n) ==
    IF n = 0 THEN {<<>>}
    ELSE LET shorter == SeqsUpTo(S, n - 1)
         IN  shorter \cup {Append(s, e) : s \in {t \in shorter : Len(t) = n - 1}, e \in S}

\* some enumeration of a set of nodes, as a list
RECURSIVE SetToSeq(_)
SetToSeq(S) ==
    IF S = {} THEN <<>>
    ELSE LET x == CHOOSE y \in S : TRUE IN <<x>> \o SetToSeq(S \ {x})

\* a single propagation: a trigger that submitted the nodes of submitted,
\* then the diagnosis events of the nodes of failed
Propagation(g, submitted, failed) ==
    LET f == SetToSeq(failed)
        roots == SetToSeq({n \in DOMAIN g : predecessors(g, n) = {}})
    IN  <<WaveEvent(1000, TRUE, roots, SetToSeq(submitted))>>
            \o [i \in 1..Len(f) |-> WaveEvent(1000 + i, FALSE, <<f[i]>>, g[f[i]])]

\* as Propagation, the trigger being at wave t
PropagationAt(g, t, submitted, failed) ==
    LET p == Propagation(g, submitted, failed)
    IN  [i \in 1..Len(p) |-> [p[i] EXCEPT !.wave = @ - 1000 + t]]

AnalysisInputs ==
    {[wave_data |-> d, graph |-> ChainGraph] : d \in SeqsUpTo(ChainEvents, MaxEvents)}
        \cup {[wave_data |-> PropagationAt(ChainGraph, 1000, f1, f1)
                                \o PropagationAt(ChainGraph, 2000, f2, f2),
               graph |-> ChainGraph] : f1 \in SUBSET {A, B, C}, f2 \in SUBSET {A, B, C}}
        \cup {[wave_data |-> Propagation(g, s, f), graph |-> g] :
                 g \in {ChainGraph, DiamondGraph},
                 s \in SUBSET {A, B, C}, f \in SUBSET {A, B, C}}
        \cup {[wave_data |-> Propagation(DiamondGraph, s, f), graph |-> DiamondGraph] :
                 s \in SUBSET {A, B, C, D}, f \in SUBSET {A, B, C, D}}

\* the simulator's variables when no simulator is involved
NoSimulator ==
    /\ root_nodes = <<>>
    /\ time_step = 1
    /\ node_names = <<>>
    /\ nodes = <<>>
    /\ wave_data = <<>>
    /\ check_data_results = <<>>
    /\ ground_truth = <<>>
    /\ wave_offset = 0
    /\ current_time = 0
    /\ pc = "analysis"
    /\ timed_out_nodes = <<>>
    /\ submitted_nodes = <<>>
    /\ sub_idx = 1
    /\ stack = <<>>

InitAnalysis ==
    \E in \in AnalysisInputs :
        /\ graph = in.graph
        /\ input = [wave_data |-> in.wave_data]
        /\ output = NoCall
        /\ NoSimulator

Unchanged_but_output ==
    UNCHANGED <<graph, root_nodes, time_step, node_names, nodes, wave_data,
                check_data_results, ground_truth, wave_offset, current_time, pc,
                timed_out_nodes, submitted_nodes, sub_idx, stack, input>>

Call_split_data_by_wave ==
    /\ pc = "analysis"
    /\ validate_wave_data(input.wave_data)
    /\ output' = [fn |-> "split_data_by_wave",
                  result |-> split_data_by_wave(input.wave_data)]
    /\ Unchanged_but_output

Call_find_base_failure_for_wave ==
    /\ pc = "analysis"
    /\ validate_wave_data(input.wave_data)
    /\ output' = [fn |-> "find_base_failure_for_wave",
                  result |-> find_base_failure_for_wave(input.wave_data, graph)]
    /\ Unchanged_but_output

Call_find_base_failures ==
    /\ pc = "analysis"
    /\ validate_wave_data(input.wave_data)
    /\ output' = [fn |-> "find_base_failures",
                  result |-> find_base_failures(input.wave_data, graph)]
    /\ Unchanged_but_output

\* the nodes argument: the graph's nodes, in some orders, or some of them
NodeLists(g) == {SetToSeq(DOMAIN g), <<C, A, B>>, <<A, B>>}

Call_find_co_occurring_failures ==
    /\ pc = "analysis"
    /\ validate_wave_data(input.wave_data)
    /\ \E node_list \in NodeLists(graph) :
          output' = [fn |-> "find_co_occurring_failures",
                     nodes |-> node_list,
                     result |-> find_co_occurring_failures(input.wave_data, node_list)]
    /\ Unchanged_but_output

NextAnalysis ==
    \/ Call_split_data_by_wave
    \/ Call_find_base_failure_for_wave
    \/ Call_find_base_failures
    \/ Call_find_co_occurring_failures

SpecAnalysis == InitAnalysis /\ [][NextAnalysis]_vars

(***************************************************************************)
(* C6                                                                      *)
(***************************************************************************)
RECURSIVE Flatten(_)
Flatten(groups) ==
    IF groups = <<>> THEN <<>> ELSE groups[1] \o Flatten(Tail(groups))

\* s without the entries that precede its first timed trigger
RECURSIVE DropLeadingNonTriggers(_)
DropLeadingNonTriggers(s) ==
    IF s = <<>> \/ s[1].timed_trigger THEN s ELSE DropLeadingNonTriggers(Tail(s))

\* the log with waves [1.002(false), 1.000(true), 1.001(false), 2.000(true)]
C6_Example ==
    << WaveEvent(1002, FALSE, <<B>>, <<A>>), WaveEvent(1000, TRUE, <<C>>, <<A, B>>),
       WaveEvent(1001, FALSE, <<B>>, <<A>>), WaveEvent(2000, TRUE, <<C>>, <<A, B>>) >>

\* the groups are the wave-ordered log cut before each timed trigger
GroupsCutAtTriggers(groups) ==
    /\ \A k \in 1..Len(groups) :
          /\ groups[k] # <<>>
          /\ \A j \in 2..Len(groups[k]) : ~groups[k][j].timed_trigger
    /\ \A k \in 2..Len(groups) : groups[k][1].timed_trigger
    /\ \A i \in 1..Len(Flatten(groups)), j \in 1..Len(Flatten(groups)) :
          i < j => Flatten(groups)[i].wave <= Flatten(groups)[j].wave

\* C6: split_data_by_wave sorts the events ascending by wave, starts a group at
\* each timed_trigger=true event, appends the following timed_trigger=false
\* events to it and drops every leading timed_trigger=false event, so every
\* group begins with a timed trigger and the empty log gives no group; on the
\* waves [1.002(false), 1.000(true), 1.001(false), 2.000(true)] it returns
\* [[1.000(true), 1.001(false)], [2.000(true)]].
C6_SplitDropsLeadingEvents ==
    output.fn = "split_data_by_wave" =>
        /\ GroupsCutAtTriggers(output.result)
        /\ \A k \in 1..Len(output.result) : output.result[k][1].timed_trigger
        /\ Flatten(output.result) = DropLeadingNonTriggers(sorted_by_wave(input.wave_data))
        /\ input.wave_data = <<>> => output.result = <<>>
        /\ input.wave_data = C6_Example =>
              output.result = << <<C6_Example[2], C6_Example[3]>>, <<C6_Example[4]>> >>

\* what the code does: nothing is dropped, so the entries before the first
\* timed trigger make up a first group of their own, and on C6_Example the
\* event of wave 1.002 is sorted into the group of the trigger of wave 1.000
C6_SplitKeepsEveryEvent ==
    output.fn = "split_data_by_wave" =>
        /\ GroupsCutAtTriggers(output.result)
        /\ Flatten(output.result) = sorted_by_wave(input.wave_data)
        /\ \A i \in 1..Len(input.wave_data) :
              Cardinality({j \in 1..Len(input.wave_data) : input.wave_data[j] = input.wave_data[i]})
                  = Cardinality({j \in 1..Len(Flatten(output.result)) :
                                    Flatten(output.result)[j] = input.wave_data[i]})
        /\ input.wave_data = <<>> => output.result = <<>>
        /\ input.wave_data = C6_Example =>
              output.result = << <<C6_Example[2], C6_Example[3], C6_Example[1]>>,
                                 <<C6_Example[4]>> >>

\* a returned first group that begins with a timed_trigger=false event
C6_LeadingGroupKept ==
    /\ output.fn = "split_data_by_wave"
    /\ Len(output.result) = 2
    /\ ~output.result[1][1].timed_trigger
    /\ output.result[2][1].timed_trigger

(***************************************************************************)
(* C7                                                                      *)
(***************************************************************************)
\* the log is one propagation over C -> B -> A: one trigger, which submitted
\* [A, B] and precedes every other event, and diagnosis events rooted at B only
BTimedOutAPassed ==
    /\ graph = ChainGraph
    /\ \E t \in 1..Len(input.wave_data) :
          /\ input.wave_data[t].timed_trigger
          /\ input.wave_data[t].submitted_nodes = <<A, B>>
          /\ \A i \in 1..Len(input.wave_data) :
                i # t => /\ ~input.wave_data[i].timed_trigger
                         /\ input.wave_data[i].root_nodes = <<B>>
                         /\ input.wave_data[i].wave > input.wave_data[t].wave
    /\ \E i \in 1..Len(input.wave_data) : ~input.wave_data[i].timed_trigger

\* C7 as stated: for a single propagation over C -> B -> A in which B timed out
\* (submitted_nodes [A, B]), B is the only diagnosis root and the diagnosed
\* successor A passes, find_base_failures attributes downstream node B to base
\* cause A with count 1.
C7_BAttributedToA ==
    (BTimedOutAPassed /\ output.fn = "find_base_failures") =>
        output.result = (B :> (A :> 1))

\* C7 as the code has it: for that propagation find_base_failures attributes
\* downstream node B to base cause B (B has no failed successor, so it is its
\* own base cause) with count 1, and to nothing else.
C7_BAttributedToItself ==
    (BTimedOutAPassed /\ output.fn = "find_base_failures") =>
        output.result = (B :> (B :> 1))

\* find_base_failures has been applied to fetch_manual_data(2)
C7_Witness ==
    /\ BTimedOutAPassed
    /\ input.wave_data = Fixture2
    /\ output.fn = "find_base_failures"
    /\ DOMAIN output.result = {B}

(***************************************************************************)
(* C8                                                                      *)
(***************************************************************************)
\* the nodes reached from those of S along edges into nodes of failed
RECURSIVE FailedReach(_, _, _)
FailedReach(g, failed, S) ==
    LET next == S \cup {n \in failed : \E p \in S : n \in successors(g, p)}
    IN  IF next = S THEN S ELSE FailedReach(g, failed, next)

\* the failed nodes without failed direct successor reached from d through
\* failed nodes
FailedLeavesFrom(g, failed, d) ==
    {c \in FailedReach(g, failed, {d}) : c \in failed /\ successors(g, c) \cap failed = {}}

DiagnosisRoots(data) ==
    {n \in DOMAIN graph : \E i \in 1..Len(data) :
        ~data[i].timed_trigger /\ InSeq(n, data[i].root_nodes)}

TriggerSubmitted(data) ==
    {n \in DOMAIN graph : \E i \in 1..Len(data) :
        data[i].timed_trigger /\ InSeq(n, data[i].submitted_nodes)}

\* C8: the per-propagation attribution has as keys only nodes that are diagnosis
\* roots (failed_nodes), are in the timed trigger's submitted_nodes and have no
\* direct predecessor in failed_nodes; every base cause listed for a key d is a
\* failed node without direct successor in failed_nodes, reachable from d along
\* edges passing only through failed nodes; a node with several failed
\* successors contributes the union of their base causes and is itself excluded.
C8_AttributionKeysAndCauses ==
    output.fn = "find_base_failure_for_wave" =>
        LET failed == DiagnosisRoots(input.wave_data)
            m == output.result
        IN  \A d \in DOMAIN m :
                /\ d \in failed
                /\ d \in TriggerSubmitted(input.wave_data)
                /\ predecessors(graph, d) \cap failed = {}
                /\ \A c \in m[d] :
                      /\ c \in failed
                      /\ successors(graph, c) \cap failed = {}
                      /\ c \in FailedReach(graph, failed, {d})
                /\ successors(graph, d) \cap failed # {} =>
                      /\ d \notin m[d]
                      /\ m[d] = UNION {FailedLeavesFrom(graph, failed, s) :
                                          s \in successors(graph, d) \cap failed}

\* a key with two failed successors, attributed to the base causes of both,
\* while another submitted failed node is no key
C8_Witness ==
    /\ output.fn = "find_base_failure_for_wave"
    /\ \E d \in DOMAIN output.result :
          /\ Cardinality(successors(graph, d) \cap DiagnosisRoots(input.wave_data)) = 2
          /\ Cardinality(output.result[d]) = 2
    /\ \E n \in TriggerSubmitted(input.wave_data) \cap DiagnosisRoots(input.wave_data) :
          n \notin DOMAIN output.result

(***************************************************************************)
(* Chain length and propagation depth (base_failure.py,                    *)
(* failure_depth_analysis.py)                                              *)
(***************************************************************************)
\* a Python number n / d; the int 0 and the float 0.0 are the same number
Frac(n, d) == [num |-> n, den |-> d]

FracEq(a, b) == a.num * b.den = b.num * a.den

\* breadth-first search from the nodes of frontier, which are at distance level
RECURSIVE BFS(_, _, _, _)
BFS(g, frontier, dist, level) ==
    IF frontier = {} THEN dist
    ELSE LET seen == dist @@ [n \in frontier |-> level]
         IN  BFS(g, (UNION {successors(g, n) : n \in frontier}) \ DOMAIN seen,
                 seen, level + 1)

\* nx.single_source_shortest_path_length(graph, node), nx.shortest_path_length(graph, node):
\* reachable node -> number of edges of a shortest path
single_source_shortest_path_length(g, node) == BFS(g, {node}, <<>>, 0)

\* the (downstream node, base cause) pairs of the stats
StatsPairs(stats) ==
    UNION {{<<d, c>> : c \in DOMAIN stats[d]} : d \in DOMAIN stats}

\* the lookup path_lengths[downstream_node][base_node] raises KeyError
RaisesKeyError(stats, path_lengths) ==
    \E p \in StatsPairs(stats) :
        p[1] \notin DOMAIN path_lengths \/ p[2] \notin DOMAIN path_lengths[p[1]]

RECURSIVE SumOver(_, _)
SumOver(S, f) ==
    IF S = {} THEN 0
    ELSE LET x == CHOOSE y \in S : TRUE IN f[x] + SumOver(S \ {x}, f)

\* _validate_base_failure_stats: the counts are ints
validate_base_failure_stats(stats) ==
    \A p \in StatsPairs(stats) : stats[p[1]][p[2]] \in Int

\* a variant of average_chain_lengths_per_node without the default
observed_nodes_only(average_chain_lengths, graph_nodes) == average_chain_lengths

\* {x: average_chain_lengths.get(x, 0) for x in nodes}
average_chain_lengths_per_node(average_chain_lengths, graph_nodes) ==
    [x \in graph_nodes |->
        IF x \in DOMAIN average_chain_lengths THEN average_chain_lengths[x] ELSE Frac(0, 1)]

\* find_mean_failure_chain_length; chain_lengths[base_node] is the list that
\* holds path_lengths[downstream_node][base_node] num_failures times for every
\* downstream node, of which the sum and the length are kept
find_mean_failure_chain_length(stats, g) ==
    LET path_lengths == [node \in DOMAIN g |-> single_source_shortest_path_length(g, node)]
        base_nodes == {p[2] : p \in StatsPairs(stats)}
        from(base_node) == {p \in StatsPairs(stats) : p[2] = base_node}
        sum_lengths(base_node) ==
            SumOver(from(base_node),
                    [p \in from(base_node) |-> path_lengths[p[1]][p[2]] * stats[p[1]][p[2]]])
        len_lengths(base_node) ==
            SumOver(from(base_node), [p \in from(base_node) |-> stats[p[1]][p[2]]])
    IN  IF RaisesKeyError(stats, path_lengths) THEN Raise("KeyError")
        ELSE IF \E base_node \in base_nodes : len_lengths(base_node) = 0
             THEN Raise("ZeroDivisionError")
        ELSE Return_(average_chain_lengths_per_node(
                 [base_node \in base_nodes |->
                     Frac(sum_lengths(base_node), len_lengths(base_node))],
                 DOMAIN g))

\* analyze_failure_propagation_depth; propagation_depths[base_cause] is the list
\* that holds shortest_path_lengths[downstream_node][base_cause] once for
\* every downstream node, whatever the count
analyze_failure_propagation_depth(stats, g) ==
    LET shortest_path_lengths ==
            [node \in DOMAIN g |-> single_source_shortest_path_length(g, node)]
        from(base_cause) == {p \in StatsPairs(stats) : p[2] = base_cause}
        sum_depths(node) ==
            SumOver(from(node), [p \in from(node) |-> shortest_path_lengths[p[1]][p[2]]])
        len_depths(node) == Cardinality(from(node))
    IN  IF RaisesKeyError(stats, shortest_path_lengths) THEN Raise("KeyError")
        ELSE Return_([node \in DOMAIN g |->
                 IF len_depths(node) = 0
                 THEN [depth |-> Frac(-1, 1), failures |-> 0]
                 ELSE [depth |-> Frac(sum_depths(node), len_depths(node)),
                       failures |-> len_depths(node)]])

(***************************************************************************)
(* The metrics applied to bounded statistics                               *)
(***************************************************************************)
\* the stats hold at most MaxEntries (downstream node, base cause) pairs
MaxEntries == 2

\* every count of the stats is in 1..MaxCount, as find_base_failures counts
MaxCount == 2

\* the stats with the counts of the function counts on pairs
StatsOf(counts) ==
    [d \in {p[1] : p \in DOMAIN counts} |->
        [c \in {p[2] : p \in {q \in DOMAIN counts : q[1] = d}} |-> counts[<<d, c>>]]]

StatsInputs(g) ==
    UNION {{StatsOf(counts) : counts \in [P -> 1..MaxCount]} :
              P \in {Q \in SUBSET ((DOMAIN g) \X (DOMAIN g)) : Cardinality(Q) <= MaxEntries}}

InitStats ==
    \E g \in {ChainGraph, DiamondGraph} :
        \E stats \in StatsInputs(g) :
            /\ graph = g
            /\ input = [stats |-> stats]
            /\ output = NoCall
            /\ NoSimulator

Call_find_mean_failure_chain_length ==
    /\ pc = "analysis"
    /\ validate_base_failure_stats(input.stats)
    /\ output' = [fn |-> "find_mean_failure_chain_length",
                  result |-> find_mean_failure_chain_length(input.stats, graph)]
    /\ Unchanged_but_output

Call_analyze_failure_propagation_depth ==
    /\ pc = "analysis"
    /\ output' = [fn |-> "analyze_failure_propagation_depth",
                  result |-> analyze_failure_propagation_depth(input.stats, graph)]
    /\ Unchanged_but_output

NextStats ==
    \/ Call_find_mean_failure_chain_length
    \/ Call_analyze_failure_propagation_depth

SpecStats == InitStats /\ [][NextStats]_vars

(***************************************************************************)
(* C9                                                                      *)
(***************************************************************************)
Returned == output.result.raised = "None"

\* the nodes that appear as a base cause in the stats
BaseCauses == {p[2] : p \in StatsPairs(input.stats)}

C9_EmptyStats ==
    /\ input.stats = <<>>
    /\ output.fn \in {"find_mean_failure_chain_length", "analyze_failure_propagation_depth"}
    /\ DOMAIN output.result.value = DOMAIN graph

(***************************************************************************)
(* C10                                                                     *)
(***************************************************************************)
\* the occurrence-count-weighted mean of the shortest path lengths to
\* base_cause from the downstream nodes attributing to it
WeightedMean(stats, g, base_cause) ==
    LET from == {p \in StatsPairs(stats) : p[2] = base_cause}
    IN  Frac(SumOver(from, [p \in from |->
                 stats[p[1]][p[2]] * single_source_shortest_path_length(g, p[1])[p[2]]]),
             SumOver(from, [p \in from |-> stats[p[1]][p[2]]]))

\* the same mean with every downstream node counted once
UnweightedMean(stats, g, base_cause) ==
    LET from == {p \in StatsPairs(stats) : p[2] = base_cause}
    IN  Frac(SumOver(from, [p \in from |->
                 single_source_shortest_path_length(g, p[1])[p[2]]]),
             Cardinality(from))

\* C10: for every node that appears as a base cause in the stats, the depth of
\* analyze_failure_propagation_depth equals the value of
\* find_mean_failure_chain_length for the same stats and graph, which is the
\* occurrence-count-weighted mean of the shortest path lengths from the
\* downstream nodes attributing to it.
C10_DepthIsChainLength ==
    (output.fn = "analyze_failure_propagation_depth" /\ Returned) =>
        \A n \in BaseCauses :
            /\ FracEq(output.result.value[n].depth,
                      find_mean_failure_chain_length(input.stats, graph).value[n])
            /\ FracEq(output.result.value[n].depth, WeightedMean(input.stats, graph, n))

\* what the code does: the chain length is the weighted mean, the depth is the
\* mean over the downstream nodes, each counted once whatever its count
C10_DepthIgnoresCounts ==
    /\ (output.fn = "analyze_failure_propagation_depth" /\ Returned) =>
          \A n \in BaseCauses :
              /\ FracEq(output.result.value[n].depth, UnweightedMean(input.stats, graph, n))
              /\ output.result.value[n].failures =
                    Cardinality({p \in StatsPairs(input.stats) : p[2] = n})
    /\ (output.fn = "find_mean_failure_chain_length" /\ Returned) =>
          \A n \in BaseCauses :
              FracEq(output.result.value[n], WeightedMean(input.stats, graph, n))

\* stats {C: {A: 2}, B: {A: 1}} over C -> B -> A: chain length 5/3, depth 3/2
C10_DepthDiffers ==
    /\ output.fn = "analyze_failure_propagation_depth"
    /\ graph = ChainGraph
    /\ input.stats = (C :> (A :> 2)) @@ (B :> (A :> 1))
    /\ FracEq(output.result.value[A].depth, Frac(3, 2))
    /\ FracEq(find_mean_failure_chain_length(input.stats, graph).value[A], Frac(5, 3))

(***************************************************************************)
(* C11                                                                     *)
(***************************************************************************)
\* the propagations of the log: the log in wave order, cut before each trigger
PropagationsOf(data) ==
    LET s == sorted_by_wave(data)
        starts == {i \in 1..Len(s) : i = 1 \/ s[i].timed_trigger}
    IN  {SubSeq(s, i, CHOOSE j \in i..Len(s) :
                         /\ \A k \in (i + 1)..j : k \notin starts
                         /\ (j = Len(s) \/ j + 1 \in starts)) : i \in starts}

\* the diagnosis-root nodes of a propagation
RootsOf(propagation) ==
    UNION {SeqToSet(propagation[i].root_nodes) :
              i \in {j \in 1..Len(propagation) : ~propagation[j].timed_trigger}}

\* no node is the root of two diagnosis events of one propagation
RootsOnce(data) ==
    \A p \in PropagationsOf(data) :
        \A i, j \in 1..Len(p) :
            (i < j /\ ~p[i].timed_trigger /\ ~p[j].timed_trigger) =>
                SeqToSet(p[i].root_nodes) \cap SeqToSet(p[j].root_nodes) = {}

C11_ReturnsOnDistinctKnownRoots ==
    output.fn = "find_co_occurring_failures" =>
        ((output.result.raised = "None") <=>
            /\ RootsOnce(input.wave_data)
            /\ \A p \in PropagationsOf(input.wave_data) :
                  Cardinality(RootsOf(p)) >= 2 => RootsOf(p) \subseteq SeqToSet(output.nodes))

validate_check_data(data) ==
    \A i \in 1..Len(data) :
        /\ {"node", "check_type", "wave", "failure_magnitude"} \subseteq DOMAIN data[i]
        /\ data[i].wave \in Int
        /\ data[i].failure_magnitude \in Int

\* the window closed at its upper end
ResultsInClosedWindow(sorted_sim_data, i, check_data) ==
    SelectSeq(check_data,
              LAMBDA result :
                  /\ sorted_sim_data[i].wave <= result.wave
                  /\ (i + 1 <= Len(sorted_sim_data) =>
                         result.wave <= sorted_sim_data[i + 1].wave))

\* [result for result in check_data if low <= result['wave'] < high]; high is
\* the next trigger's wave, or float('inf') behind the last trigger
ResultsInWindow(sorted_sim_data, i, check_data) ==
    SelectSeq(check_data,
              LAMBDA result :
                  /\ sorted_sim_data[i].wave <= result.wave
                  /\ (i + 1 <= Len(sorted_sim_data) =>
                         result.wave < sorted_sim_data[i + 1].wave))

\* organize_check_data_by_wave: trigger wave -> the check results of its window;
\* of two triggers of one wave value the later assignment to the key stays
organize_check_data_by_wave(data, check_data) ==
    LET sorted_sim_data == sorted_by_wave(SelectSeq(data, LAMBDA entry : entry.timed_trigger))
    IN  [low \in {sorted_sim_data[i].wave : i \in 1..Len(sorted_sim_data)} |->
            ResultsInWindow(sorted_sim_data,
                            CHOOSE i \in 1..Len(sorted_sim_data) :
                                /\ sorted_sim_data[i].wave = low
                                /\ \A j \in (i + 1)..Len(sorted_sim_data) :
                                      sorted_sim_data[j].wave # low,
                            check_data)]

\* arithmetic of Python numbers
FracAdd(a, b) == Frac(a.num * b.den + b.num * a.den, a.den * b.den)

FracSub(a, b) == Frac(a.num * b.den - b.num * a.den, a.den * b.den)

FracMul(a, b) == Frac(a.num * b.num, a.den * b.den)

FracMax(a, b) == IF a.num * b.den >= b.num * a.den THEN a ELSE b

FracInv(a) == Frac(a.den, a.num)

\* find_co_occurring_failures(wave_data, check_data) as calculate_check_scores
\* calls it: the check results take the place of the nodes parameter, and
\* sorted((node1, node2)) of two dicts raises TypeError
find_co_occurring_failures_of_check_data(data, check_data) ==
    IF Len(check_data) >= 2 THEN Raise("TypeError")
    ELSE CooccurrenceLoop(split_data_by_wave(data), 1, <<>>)

\* node_data[node]['checks'], ['failures'], ['failure_magnitudes'] (sum)
ChecksOf(check_data, node) ==
    {i \in 1..Len(check_data) :
        check_data[i].check_type = "check_data" /\ check_data[i].node = node}

FailuresOf(check_data, node) ==
    {i \in ChecksOf(check_data, node) : check_data[i].failure_magnitude > 0}

\* co_occurring_data.get(tuple(sorted((node, other))), 0) summed over the others
cofailure_score(co_occurring_data, g, node) ==
    LET others == DOMAIN g \ {node}
    IN  SumOver(others,
                [other \in others |->
                    IF sorted_pair(node, other) \in DOMAIN co_occurring_data
                    THEN co_occurring_data[sorted_pair(node, other)] ELSE 0])

\* the scores of one node
NodeScores(check_data, node, downstream_impact, cofailure) ==
    LET total_check_count == Cardinality(ChecksOf(check_data, node))
        failures == FailuresOf(check_data, node)
        failure_count == Cardinality(failures)
        success_rate == Frac(total_check_count - failure_count, Max(1, total_check_count))
        avg_failure_magnitude ==
            Frac(SumOver(failures, [i \in failures |-> check_data[i].failure_magnitude]),
                 Max(1, failure_count))
    IN  [check_more |->
             FracAdd(FracAdd(FracMul(Frac(4, 1), avg_failure_magnitude),
                             FracMul(Frac(10, 1), FracSub(Frac(1, 1), success_rate))),
                     FracAdd(FracMul(Frac(10, 1), downstream_impact),
                             FracMul(Frac(3, 1), Frac(cofailure, 1)))),
         check_less |->
             FracAdd(FracMul(Frac(1, 2), success_rate),
                     FracAdd(FracMul(Frac(1, 5),
                                     FracInv(FracMax(Frac(1, 1), avg_failure_magnitude))),
                             FracMul(Frac(1, 5),
                                     FracInv(FracMax(Frac(1, 1), downstream_impact)))))]

\* calculate_check_scores(wave_data, check_data, graph)
calculate_check_scores(data, check_data, g) ==
    LET avg_failure_chain_lengths ==
            find_mean_failure_chain_length(find_base_failures(sorted_by_wave(data), g), g)
        co_occurring_data ==
            find_co_occurring_failures_of_check_data(sorted_by_wave(data), check_data)
    IN  IF \E i \in 1..Len(check_data) :
               check_data[i].check_type = "check_data" /\ check_data[i].node \notin DOMAIN g
        THEN Raise("KeyError")
        ELSE IF avg_failure_chain_lengths.raised # "None" THEN avg_failure_chain_lengths
        ELSE IF co_occurring_data.raised # "None" THEN co_occurring_data
        ELSE Return_([node \in DOMAIN g |->
                 NodeScores(check_data, node, avg_failure_chain_lengths.value[node],
                            cofailure_score(co_occurring_data.value, g, node))])

(***************************************************************************)
(* The node scores applied to bounded logs and check results               *)
(***************************************************************************)
\* the check results hold at most MaxChecks entries
MaxChecks == 2

CheckEntry(node, wave, failure_magnitude) ==
    [node |-> node, check_type |-> "check_data", wave |-> wave,
     failure_magnitude |-> failure_magnitude]

\* check_data results of A and of B, passing or failing, in the window of the
\* trigger of wave 1.000 or in that of the trigger of wave 2.000
CheckEntries == {CheckEntry(n, w, f) : n \in {A, B}, w \in {1001, 2001}, f \in {0, 1}}

\* logs of two propagations over C -> B -> A, and fetch_manual_data(2)
ScoreLogs ==
    {<<>>, Fixture2}
        \cup {PropagationAt(ChainGraph, 1000, f1, f1) \o PropagationAt(ChainGraph, 2000, f2, f2) :
                 f1 \in SUBSET {A, B, C}, f2 \in SUBSET {A, B, C}}

InitScores ==
    \E d \in ScoreLogs, c \in SeqsUpTo(CheckEntries, MaxChecks) :
        /\ graph = ChainGraph
        /\ input = [wave_data |-> d, check_data |-> c]
        /\ output = NoCall
        /\ NoSimulator

Call_calculate_check_scores ==
    /\ pc = "analysis"
    /\ validate_wave_data(input.wave_data)
    /\ validate_check_data(input.check_data)
    /\ output' = [fn |-> "calculate_check_scores",
                  result |-> calculate_check_scores(input.wave_data, input.check_data, graph)]
    /\ Unchanged_but_output

Call_organize_check_data_by_wave ==
    /\ pc = "analysis"
    /\ validate_wave_data(input.wave_data)
    /\ validate_check_data(input.check_data)
    /\ output' = [fn |-> "organize_check_data_by_wave",
                  result |-> Return_(organize_check_data_by_wave(input.wave_data,
                                                                 input.check_data))]
    /\ Unchanged_but_output

NextScores ==
    \/ Call_calculate_check_scores
    \/ Call_organize_check_data_by_wave

SpecScores == InitScores /\ [][NextScores]_vars

(***************************************************************************)
(* C12                                                                     *)
(***************************************************************************)
\* the nodes with a failing check_data result in the window of trigger wave low
FailingInWindow(low) ==
    LET bucket == organize_check_data_by_wave(input.wave_data, input.check_data)[low]
    IN  {bucket[i].node : i \in {j \in 1..Len(bucket) :
            bucket[j].check_type = "check_data" /\ bucket[j].failure_magnitude > 0}}

\* the failing-check co-occurrence count of two nodes: the windows in which
\* both have a failing check_data result
FailingCheckCooccurrence(n, other) ==
    Cardinality({low \in DOMAIN organize_check_data_by_wave(input.wave_data, input.check_data) :
                    {n, other} \subseteq FailingInWindow(low)})

ExpectedCofailureScore(n) ==
    SumOver(DOMAIN graph \ {n},
            [other \in DOMAIN graph \ {n} |-> FailingCheckCooccurrence(n, other)])

ExpectedScores(n) ==
    NodeScores(input.check_data, n,
               find_mean_failure_chain_length(
                   find_base_failures(input.wave_data, graph), graph).value[n],
               ExpectedCofailureScore(n))

\* C12: the failing-check co-occurrence buckets the check results by the
\* trigger-wave window containing them and counts, per window, every unordered
\* pair of nodes whose check_data result had failure_magnitude > 0;
\* calculate_check_scores takes as a node's cofailure_score the sum of these
\* counts against every other node and returns a check_more / check_less score
\* for every graph node.
C12_ScoresUseFailingCheckCooccurrence ==
    output.fn = "calculate_check_scores" =>
        /\ output.result.raised = "None"
        /\ DOMAIN output.result.value = DOMAIN graph
        /\ \A n \in DOMAIN graph :
              /\ FracEq(output.result.value[n].check_more, ExpectedScores(n).check_more)
              /\ FracEq(output.result.value[n].check_less, ExpectedScores(n).check_less)

\* what the code does: with two or more check results it raises TypeError; with
\* fewer it raises KeyError if a propagation has two diagnosis roots, and else
\* returns scores in which every cofailure_score is 0
C12_CheckResultsPassedAsNodes ==
    output.fn = "calculate_check_scores" =>
        /\ Len(input.check_data) >= 2 => output.result.raised = "TypeError"
        /\ output.result.raised = "None" =>
              /\ DOMAIN output.result.value = DOMAIN graph
              /\ \A n \in DOMAIN graph :
                    FracEq(output.result.value[n].check_more,
                           NodeScores(input.check_data, n,
                               find_mean_failure_chain_length(
                                   find_base_failures(input.wave_data, graph), graph).value[n],
                               0).check_more)

\* A and B have a failing check_data result in one window, and the call raised
C12_RaisedOnCofailure ==
    /\ output.fn = "calculate_check_scores"
    /\ ExpectedCofailureScore(A) = 1
    /\ ExpectedCofailureScore(B) = 1
    /\ output.result.raised = "TypeError"

(***************************************************************************)
(* One node under any sequence of calls (node.py, virtual_node.py)         *)
(***************************************************************************)
\* the calls are made at times 0 .. MaxNodeTime
MaxNodeTime == 4

\* the check_data calls since the last calibrate are counted up to MaxChecksCounted
MaxChecksCounted == 3

CountCheck(k) == IF k < MaxChecksCounted THEN k + 1 ELSE k

\* Node.__init__ with delay_first_check=True, fifth_percentile_ttf=fifth
WithDelayFirstCheck(n, fifth) ==
    [n EXCEPT !.delay_first_check = TRUE, !.fifth_percentile_ttf = fifth]

\* Node.__init__ with check_long_lived_nodes=True, ninety_fifth_percentile_ttf=ninety_fifth
WithCheckLongLived(n, ninety_fifth) ==
    [n EXCEPT !.check_long_lived_nodes = TRUE, !.ninety_fifth_percentile_ttf = ninety_fifth]

\* the nodes under study; the timeouts are even and the fifth percentiles
\* multiples of 5, so that timeout / 2 and fifth_percentile_ttf / 5 are exact
NodeConfigs ==
    { SimpleNode(2 * Milli, 50),
      WithDelayFirstCheck(SimpleNode(2 * Milli, 50), 15 * Milli),
      WithDelayFirstCheck(SimpleNode(2 * Milli, 50), 10 * Milli),
      WithCheckLongLived(SimpleNode(2 * Milli, 50), 1 * Milli),
      WithCheckLongLived(WithDelayFirstCheck(SimpleNode(2 * Milli, 0), 15 * Milli), 20 * Milli),
      VirtualConnectionNode(1 * Milli) }

\* the node under study
TheNode == nodes[A]

InitNode ==
    \E n \in NodeConfigs :
        /\ graph = (A :> <<>>)
        /\ root_nodes = <<A>>
        /\ time_step = 1
        /\ node_names = <<A>>
        /\ nodes = (A :> n)
        /\ wave_data = <<>>
        /\ check_data_results = <<>>
        /\ ground_truth = <<>>
        /\ wave_offset = 0
        /\ current_time = 0
        /\ pc = "node"
        /\ timed_out_nodes = <<>>
        /\ submitted_nodes = <<>>
        /\ sub_idx = 1
        /\ stack = <<>>
        /\ input = NoCall
        /\ output = [fn |-> "__init__", result |-> "None", checks_since_calibration |-> 0]

Unchanged_but_node ==
    UNCHANGED <<graph, root_nodes, time_step, node_names, wave_data, check_data_results,
                ground_truth, wave_offset, pc, timed_out_nodes, submitted_nodes,
                sub_idx, stack, input>>

\* time passes between two calls
NodeTick ==
    /\ pc = "node"
    /\ current_time < MaxNodeTime * Milli
    /\ current_time' = current_time + Milli
    /\ UNCHANGED <<nodes, output>>
    /\ Unchanged_but_node

\* node.simulate_failure()
NodeCall_simulate_failure ==
    /\ pc = "node"
    /\ \E n \in simulate_failure(TheNode) : nodes' = (A :> n)
    /\ output' = [output EXCEPT !.fn = "simulate_failure", !.result = "None"]
    /\ UNCHANGED current_time
    /\ Unchanged_but_node

\* node.check_data(time)
NodeCall_check_data ==
    /\ pc = "node"
    /\ LET r == Node_check_data(TheNode, current_time)
       IN  /\ nodes' = (A :> r.node)
           /\ output' = [fn |-> "check_data", result |-> r.failed,
                         checks_since_calibration |-> CountCheck(output.checks_since_calibration)]
    /\ UNCHANGED current_time
    /\ Unchanged_but_node

\* the simulator's check of the node: node.last_check = current_time, and then
\* node.check_data(current_time) in _check_failure
NodeCall_check_by_simulator ==
    /\ pc = "node"
    /\ LET r == Node_check_data([TheNode EXCEPT !.last_check = current_time], current_time)
       IN  /\ nodes' = (A :> r.node)
           /\ output' = [fn |-> "check_data", result |-> r.failed,
                         checks_since_calibration |-> CountCheck(output.checks_since_calibration)]
    /\ UNCHANGED current_time
    /\ Unchanged_but_node

\* node.calibrate(time)
NodeCall_calibrate ==
    /\ pc = "node"
    /\ nodes' = (A :> calibrate(TheNode, current_time))
    /\ output' = [fn |-> "calibrate", result |-> "None", checks_since_calibration |-> 0]
    /\ UNCHANGED current_time
    /\ Unchanged_but_node

NextNode ==
    \/ NodeTick
    \/ NodeCall_simulate_failure
    \/ NodeCall_check_data
    \/ NodeCall_check_by_simulator
    \/ NodeCall_calibrate

SpecNode == InitNode /\ [][NextNode]_vars

(***************************************************************************)
(* C13                                                                     *)
(***************************************************************************)
\* C13: with delay_first_check enabled and fifth_percentile_ttf > 5 * timeout at
\* calibration time, calibrate() widens the timeout to fifth_percentile_ttf / 5;
\* the widened timeout stays in effect for at most 2 consecutive checks after
\* the calibration, and the check_data call that follows the second of them
\* restores timeout to base_timeout.
C13_WidenedForTwoChecks ==
    /\ [][ (/\ NodeCall_calibrate
            /\ TheNode.delay_first_check
            /\ TheNode.fifth_percentile_ttf > 5 * TheNode.timeout) =>
               5 * TheNode'.timeout = TheNode.fifth_percentile_ttf ]_vars
    /\ []( (/\ TheNode.delay_first_check
            /\ output.fn = "check_data"
            /\ output.checks_since_calibration > num_first_checks_to_delay) =>
               TheNode.timeout = TheNode.base_timeout )

\* what the code does: calibrate() sets cur_num_first_checks_delayed to 0 before
\* it counts, so the count never reaches num_first_checks_to_delay, the flag
\* first_check_delayed_flag is never set, and no check_data call restores the
\* timeout: once widened it stays fifth_percentile_ttf / 5
C13_WidenedTimeoutNeverRestored ==
    /\ [](~TheNode.first_check_delayed_flag /\ TheNode.cur_num_first_checks_delayed <= 1)
    /\ [][ (TheNode.delay_first_check /\ TheNode.timeout # TheNode.base_timeout
               /\ ~TheNode.check_long_lived_nodes) =>
               TheNode'.timeout = TheNode.timeout ]_vars

\* the third check_data call after a widening calibration, the timeout still
\* being the widened one
C13_StillWidenedAtThirdCheck ==
    /\ TheNode.delay_first_check
    /\ output.fn = "check_data"
    /\ output.checks_since_calibration = 3
    /\ 5 * TheNode.timeout = TheNode.fifth_percentile_ttf
    /\ TheNode.timeout > TheNode.base_timeout

\* the widening itself, as calibrate() performs it
C13_CalibrateWidens ==
    [][ (/\ NodeCall_calibrate
         /\ TheNode.delay_first_check
         /\ TheNode.fifth_percentile_ttf > 5 * TheNode.timeout) =>
            5 * TheNode'.timeout = TheNode.fifth_percentile_ttf ]_vars

(***************************************************************************)
(* C14                                                                     *)
(***************************************************************************)
\* the node has gone unchecked and uncalibrated for longer than
\* ninety_fifth_percentile_ttf
LongLived ==
    /\ TheNode.check_long_lived_nodes
    /\ current_time - Max(TheNode.last_calibration, TheNode.last_check)
           > TheNode.ninety_fifth_percentile_ttf

\* C14: with check_long_lived_nodes enabled, a check_data(time) call made when
\* time - max(last_calibration, last_check) exceeds ninety_fifth_percentile_ttf
\* sets timeout to base_timeout / 2, and between two calibrations the halving
\* is applied at most once.
C14_LongLivedNodeHalved ==
    [][ /\ (NodeCall_check_data /\ LongLived) =>
              /\ 2 * TheNode'.timeout = TheNode.base_timeout
              /\ TheNode'.long_lived_flag
        /\ (TheNode.long_lived_flag /\ TheNode'.long_lived_flag) =>
              TheNode'.timeout = TheNode.timeout ]_vars

\* what the code does: it compares max(last_calibration, last_check) - time,
\* which is never positive, with the percentile, so the timeout is never halved
C14_NeverHalved ==
    [](TheNode.check_long_lived_nodes =>
          /\ ~TheNode.long_lived_flag
          /\ 2 * TheNode.timeout # TheNode.base_timeout)

\* a check_data call on a long-lived node has left the timeout as it was
C14_LongLivedNotHalved ==
    /\ LongLived
    /\ output.fn = "check_data"
    /\ TheNode.timeout = TheNode.base_timeout
    /\ ~TheNode.long_lived_flag

(***************************************************************************)
(* C15                                                                     *)
(***************************************************************************)
\* C15: a VirtualConnectionNode has failed = true after construction and after
\* any sequence of calibrate(), simulate_failure() and check_data() calls, and
\* its check_data always reports failure.
C15_VirtualNodeAlwaysFailed ==
    TheNode.kind = "VirtualConnectionNode" =>
        /\ TheNode.failed
        /\ output.fn = "check_data" => output.result = TRUE

\* a VirtualConnectionNode that has been checked and then calibrated
C15_Witness ==
    /\ TheNode.kind = "VirtualConnectionNode"
    /\ output.fn = "calibrate"
    /\ TheNode.last_check > 0
    /\ TheNode.failed

PosInf == [inf |-> 1]
NegInf == [inf |-> -1]
Fin(v) == [inf |-> 0, v |-> v]

\* max(lo, x) and min(hi, x) for a bound lo, hi that may be infinite
py_max(lo, x) == IF lo.inf = -1 THEN x ELSE Max(lo.v, x)
py_min(hi, x) == IF hi.inf = 1 THEN x ELSE IF hi.v <= x THEN hi.v ELSE x

\* FuncNode.__init__: monitor_in_spec, randomize_calibration and nonlinear_drift
\* at their defaults (True, False, False)
FuncNode_init(timeout, kind) ==
    [Node_init(timeout) EXCEPT !.kind = kind]
        @@ [ monitor_in_spec |-> TRUE,
             params_before_calibration |-> <<>>,
             params_after_calibration |-> <<>>,
             compensation |-> 0,
             dependence |-> "None",
             target_node |-> "None",
             check_data_failure_rate |-> 0,
             param_calibration_drift_amount |-> 0 ]

\* -self.decay_time * np.log(1 - .999) for decay_time = 10.0: 69.0776
initial_time == 69078

\* ExpDecayFuncNode.parameter_setup: amp 1.0, decay_time 10.0, background 0.0,
\* threshold 0.992, biases 0.6, 0.6, 0.6, 0.4; the drift rates are keyword
\* arguments
ExpDecayFuncNode_setup(n, drift_rates) ==
    n @@ [ parameters |-> <<"amp", "time", "decay_time", "background">>,
           initial_params |-> [amp |-> 1 * Milli, time |-> initial_time,
                               decay_time |-> 10 * Milli, background |-> 0],
           current_params |-> [amp |-> 1 * Milli, time |-> initial_time,
                               decay_time |-> 10 * Milli, background |-> 0],
           threshold |-> 992,
           drift_rates |-> drift_rates,
           drift_biases |-> [amp |-> 60, time |-> 40, decay_time |-> 60,
                             background |-> 60],
           parameter_min_values |-> [amp |-> Fin(1 * Milli), time |-> Fin(0),
                                     decay_time |-> Fin(10 * Milli),
                                     background |-> Fin(0)],
           parameter_max_values |-> [amp |-> PosInf, time |-> Fin(initial_time),
                                     decay_time |-> PosInf, background |-> PosInf] ]

\* ExpDecayFuncNode(name=..., timeout=..., <param>_drift_rate=...)
ExpDecayFuncNode(timeout, drift_rates) ==
    ExpDecayFuncNode_setup(FuncNode_init(timeout, "ExpDecayFuncNode"), drift_rates)

\* the default decay_time_drift_rate 4.30677 / 75 = 0.0574, as the even 0.058
decay_time_drift_rate == 58

\* CompensatingExpDecayNode(name='B', timeout=np.inf,
\*     dependent_nodes={'dependence': self}, amp_drift_rate=0.,
\*     background_drift_rate=0., time_drift_rate=0.)
CompensatingExpDecayNode(dependence) ==
    [ ExpDecayFuncNode_setup(
          FuncNode_init(PosInf, "CompensatingExpDecayNode"),
          [amp |-> 0, time |-> 0, decay_time |-> decay_time_drift_rate,
           background |-> 0])
      EXCEPT !.dependence = dependence ]

\* RandomlyChangeParamNodeCombinedWithTargetNode(name=..., timeout=...,
\*     dependent_nodes={'dependence': ...}, param_drift_rate=...); the target
\* node it builds is kept beside it, under target_node
RandomlyChangeParamNodeCombinedWithTargetNode(timeout, dependence, target_node, param_drift_rate) ==
    [ FuncNode_init(timeout, "RandomlyChangeParamNodeCombinedWithTargetNode")
      EXCEPT !.dependence = dependence,
             !.target_node = target_node,
             !.check_data_failure_rate = 10,
             !.param_calibration_drift_amount = 1 * Milli ]
        @@ [ parameters |-> <<"param">>,
             initial_params |-> [param |-> 0],
             current_params |-> [param |-> 0],
             drift_rates |-> [param |-> param_drift_rate],
             drift_biases |-> [param |-> 80],
             parameter_min_values |-> [param |-> NegInf],
             parameter_max_values |-> [param |-> PosInf] ]

\* np.random.uniform() in drift_parameters: a draw from [0, 1), here one of
\* 0 and 1/2
DriftHalves == {0, 1}

\* direction = 1 if np.random.uniform() < self.drift_biases[param] else -1
Directions(bias) == { IF d = "below" THEN 1 ELSE -1 : d \in Draws(bias) }

\* a variant of the two clamping lines that keeps the drifted value
no_clamp(n, param, new_param) == new_param

\* new_param = max(self.parameter_min_values[param], new_param);
\* min(self.parameter_max_values[param], new_param)
clamp(n, param, new_param) ==
    py_min(n.parameter_max_values[param],
           py_max(n.parameter_min_values[param], new_param))

\* the body of the loop of drift_parameters for one parameter
drift_param(n, param, direction, half) ==
    LET drift == direction * ((n.drift_rates[param] * half) \div 2)
        new_param == n.current_params[param] + drift
    IN  [n EXCEPT !.current_params[param] = clamp(n, param, new_param)]

\* FuncNode.drift_parameters, from parameter i on: the nodes it can leave
RECURSIVE DriftLoop(_, _)
DriftLoop(n, i) ==
    IF i > Len(n.parameters) THEN {n}
    ELSE UNION { DriftLoop(drift_param(n, n.parameters[i], direction, half), i + 1)
                 : direction \in Directions(n.drift_biases[n.parameters[i]]),
                   half \in DriftHalves }

drift_parameters(n) == DriftLoop(n, 1)

\* np.exp(-time / decay_time), rounded to the unit 1/Milli:
\* e^-7.6009 = 0.0005, e^-6.5023 = 0.0015, e^-5.9915 = 0.0025, e^-5.6550 = 0.0035
np_exp_neg(time, decay_time) ==
    IF time * 10000 > 76009 * decay_time THEN 0
    ELSE IF time * 10000 > 65023 * decay_time THEN 1
    ELSE IF time * 10000 > 59915 * decay_time THEN 2
    ELSE 3

\* ExpDecayFuncNode.exp_decay
ExpDecayFuncNode_exp_decay(n) ==
    (n.current_params.amp
        * np_exp_neg(n.current_params.time, n.current_params.decay_time)) \div Milli
        + n.current_params.background

\* get_param() of the combined node
get_param(n) == n.current_params.param

\* node.exp_decay(); CompensatingExpDecayNode adds the dependence's parameter
\* less the compensation
exp_decay(ns, id) ==
    IF ns[id].kind = "CompensatingExpDecayNode"
    THEN ExpDecayFuncNode_exp_decay(ns[id])
             + get_param(ns[ns[id].dependence]) - ns[id].compensation
    ELSE ExpDecayFuncNode_exp_decay(ns[id])

\* ExpDecayFuncNode._check_value
check_value(ns, id) == 1 * Milli - exp_decay(ns, id)

\* FuncNode.run_check: the tuple (value, value > self.threshold)
FuncNode_run_check(ns, id) ==
    LET value == check_value(ns, id)
    IN  <<value, value > ns[id].threshold>>

\* x and y for two tuples: x if x is empty, and y otherwise
and_of_tuples(x, y) == IF Len(x) = 0 THEN x ELSE y

\* x and y for two bools
and_of_bools(x, y) == IF ~x THEN x ELSE y

\* RandomlyChangeParamNodeCombinedWithTargetNode.run_check
Combined_run_check(ns, id) ==
    LET own_correctness == FuncNode_run_check(ns, ns[id].dependence)
        target_correctness == FuncNode_run_check(ns, ns[id].target_node)
    IN  and_of_tuples(own_correctness, target_correctness)

\* node.run_check(), dispatched on the node's class
run_check(ns, id) ==
    IF ns[id].kind = "RandomlyChangeParamNodeCombinedWithTargetNode"
    THEN Combined_run_check(ns, id)
    ELSE FuncNode_run_check(ns, id)

\* FuncNode.simulate_failure(time): the sets of nodes one call can leave
FuncNode_simulate_failure(ns, id) ==
    { LET ns1 == [ns EXCEPT ![id] = n1]
          r == run_check(ns1, id)
      IN  IF n1.monitor_in_spec
          THEN [ns1 EXCEPT ![id].check_data_value = r[1], ![id].failed = ~r[2]]
          ELSE ns1
      : n1 \in drift_parameters(ns[id]) }

\* RandomlyChangeParamNodeCombinedWithTargetNode.check_data(time): the pair
\* of the returned value and the nodes afterwards
Combined_check_data(ns, id, time) ==
    LET own_check_data == Node_check_data(ns[ns[id].dependence], time)
        ns1 == [ns EXCEPT ![ns[id].dependence] = own_check_data.node]
        target_check_data == Node_check_data(ns1[ns[id].target_node], time)
        ns2 == [ns1 EXCEPT ![ns[id].target_node] = target_check_data.node]
    IN  [failed |-> and_of_bools(own_check_data.failed, target_check_data.failed),
         nodes |-> ns2]

\* FuncNode.calibrate(time) with randomize_calibration off
FuncNode_calibrate(n, time) ==
    Node_calibrate([n EXCEPT !.params_before_calibration = n.current_params,
                             !.current_params = n.initial_params,
                             !.params_after_calibration = n.initial_params],
                   time)

\* CompensatingExpDecayNode.calibrate(time)
CompensatingExpDecayNode_calibrate(ns, id, time) ==
    [ns EXCEPT ![id] = [FuncNode_calibrate(ns[id], time)
                        EXCEPT !.compensation = get_param(ns[ns[id].dependence])]]

\* self.target_node.calibrate(time)
calibrate_target(ns, id, time) ==
    CompensatingExpDecayNode_calibrate(ns, ns[id].target_node, time)

\* RandomlyChangeParamNodeCombinedWithTargetNode.calibrate(time): the sets of
\* nodes one call can leave
Combined_calibrate(ns, id, time) ==
    { LET before == ns[id].current_params
          ns1 == IF r = "below"
                 THEN [ns EXCEPT ![id].current_params.param =
                                     @ + ns[id].param_calibration_drift_amount]
                 ELSE ns
          ns2 == calibrate_target(ns1, id, time)
      IN  [ns2 EXCEPT ![id].params_before_calibration = before,
                      ![id].params_after_calibration = ns2[id].current_params,
                      ![id].failed = FALSE,
                      ![id].last_calibration = time,
                      ![id].failure_magnitude = 0]
      : r \in Draws(ns[id].check_data_failure_rate) }

(***************************************************************************)
(* Calls on a combined node A, its dependence D and its target B           *)
(***************************************************************************)
MaxFuncSteps == 2
MaxCalibrations == 1

\* the dependence: an ExpDecayFuncNode whose control time and background drift
Dependence ==
    ExpDecayFuncNode(1 * Milli, [amp |-> 0, time |-> 276, decay_time |-> 0,
                                 background |-> 16])

\* param_drift_rate of the combined node: the default 0, or 0.016
ParamDriftRates == {0, 16}

InitFunc ==
    \E param_drift_rate \in ParamDriftRates :
        /\ graph = (A :> <<D>>) @@ (D :> <<>>)
        /\ root_nodes = <<A>>
        /\ time_step = 1
        /\ node_names = <<D, A>>
        /\ nodes = (D :> Dependence)
                     @@ (A :> RandomlyChangeParamNodeCombinedWithTargetNode(
                                  2 * Milli, D, B, param_drift_rate))
                     @@ (B :> CompensatingExpDecayNode(A))
        /\ wave_data = <<>>
        /\ check_data_results = <<>>
        /\ ground_truth = <<>>
        /\ wave_offset = 0
        /\ current_time = 0
        /\ pc = "func"
        /\ timed_out_nodes = <<>>
        /\ submitted_nodes = <<>>
        /\ sub_idx = 1
        /\ stack = <<>>
        /\ input = NoCall
        /\ output = [fn |-> "__init__", node |-> A, result |-> "None", calibrations |-> 0]

\* node.simulate_failure(time) at the next time step
FuncCall_simulate_failure ==
    /\ pc = "func"
    /\ current_time < MaxFuncSteps * Milli
    /\ \E id \in DOMAIN nodes :
           /\ nodes' \in FuncNode_simulate_failure(nodes, id)
           /\ output' = [output EXCEPT !.fn = "simulate_failure", !.node = id,
                                       !.result = "None"]
    /\ current_time' = current_time + Milli
    /\ Unchanged_but_node

\* A.run_check()
FuncCall_run_check ==
    /\ pc = "func"
    /\ output' = [output EXCEPT !.fn = "run_check", !.node = A,
                                !.result = run_check(nodes, A)]
    /\ UNCHANGED <<nodes, current_time>>
    /\ Unchanged_but_node

\* A.check_data(time)
FuncCall_check_data ==
    /\ pc = "func"
    /\ LET r == Combined_check_data(nodes, A, current_time)
       IN  /\ nodes' = r.nodes
           /\ output' = [output EXCEPT !.fn = "check_data", !.node = A,
                                       !.result = r.failed]
    /\ UNCHANGED current_time
    /\ Unchanged_but_node

\* A.calibrate(time)
FuncCall_calibrate ==
    /\ pc = "func"
    /\ output.calibrations < MaxCalibrations
    /\ nodes' \in Combined_calibrate(nodes, A, current_time)
    /\ output' = [output EXCEPT !.fn = "calibrate", !.node = A, !.result = "None",
                                !.calibrations = @ + 1]
    /\ UNCHANGED current_time
    /\ Unchanged_but_node

\* D.calibrate(time)
FuncCall_calibrate_dependence ==
    /\ pc = "func"
    /\ output.calibrations < MaxCalibrations
    /\ nodes' = [nodes EXCEPT ![D] = FuncNode_calibrate(nodes[D], current_time)]
    /\ output' = [output EXCEPT !.fn = "calibrate", !.node = D, !.result = "None",
                                !.calibrations = @ + 1]
    /\ UNCHANGED current_time
    /\ Unchanged_but_node

NextFunc ==
    \/ FuncCall_simulate_failure
    \/ FuncCall_run_check
    \/ FuncCall_check_data
    \/ FuncCall_calibrate
    \/ FuncCall_calibrate_dependence

SpecFunc == InitFunc /\ [][NextFunc]_vars

(***************************************************************************)
(* C17                                                                     *)
(***************************************************************************)
InBounds(n, param) ==
    /\ py_max(n.parameter_min_values[param], n.current_params[param])
           = n.current_params[param]
    /\ py_min(n.parameter_max_values[param], n.current_params[param])
           = n.current_params[param]

\* C17: after a simulate_failure step of a FuncNode, every parameter of the
\* node lies between its configured minimum and maximum
C17_ParametersClamped ==
    output.fn = "simulate_failure" =>
        \A i \in 1..Len(nodes[output.node].parameters) :
            InBounds(nodes[output.node], nodes[output.node].parameters[i])

\* a step of D has moved its background off the minimum and left its control
\* time on the maximum, and a step of B has left decay_time on its minimum
C17_Witness ==
    /\ output.fn = "simulate_failure"
    /\ output.node = B
    /\ nodes[B].current_params.decay_time = 10 * Milli
    /\ nodes[D].current_params.background > 0
    /\ nodes[D].current_params.time = initial_time

(***************************************************************************)
(* C18                                                                     *)
(***************************************************************************)
\* the target was calibrated by the call at current_time
TargetCalibrated ==
    /\ nodes[B].current_params = nodes[B].initial_params
    /\ nodes[B].last_calibration = current_time
    /\ ~nodes[B].failed
    /\ nodes[B].compensation = get_param(nodes[A])

\* C18: the combined node passes only when both its dependence's check and its
\* target's check pass: check_data reports failure whenever either of the two
\* has failed, run_check reports passing only when both pass, and calibrate
\* also calibrates the target
C18_BothChecksRequired ==
    /\ output.fn = "check_data" =>
           output.result = (nodes[D].failed \/ nodes[B].failed)
    /\ output.fn = "run_check" =>
           output.result[2] = (FuncNode_run_check(nodes, D)[2]
                                   /\ FuncNode_run_check(nodes, B)[2])
    /\ (output.fn = "calibrate" /\ output.node = A) => TargetCalibrated

\* what the code does: check_data reports failure only when both have failed,
\* run_check returns the target's result whatever the dependence's, and
\* calibrate calibrates the target
C18_TargetDecides ==
    /\ output.fn = "check_data" =>
           output.result = (nodes[D].failed /\ nodes[B].failed)
    /\ output.fn = "run_check" => output.result = FuncNode_run_check(nodes, B)
    /\ (output.fn = "calibrate" /\ output.node = A) => TargetCalibrated

\* the dependence has failed and check_data of the combined node reports none
C18_DependenceFailureUnreported ==
    /\ output.fn = "check_data"
    /\ nodes[D].failed
    /\ ~nodes[B].failed
    /\ output.result = FALSE

\* the dependence's check does not pass and run_check of the combined node passes
C18_DependenceCheckIgnored ==
    /\ output.fn = "run_check"
    /\ ~FuncNode_run_check(nodes, D)[2]
    /\ output.result[2]

(***************************************************************************)
(* Confidence intervals (spa/create_ci.py) and the samples they are built  *)
(* from (data_analysis.py).  min_num_samples(proportion, confidence) and   *)
(* spa(...) belong to an external package: the first is an input of the    *)
(* calls, the second is known by its result only.                          *)
(***************************************************************************)
\* spa_result.confidence_interval: None, or an interval whose low and high
\* are the package's function of the samples
CI_None == [absent |-> TRUE]
CI_Interval(samples) == [low_high_of |-> samples]

\* the values spa(samples, ThresholdProperty(), proportion, confidence)
\* can give as confidence_interval
spa(samples) == {CI_None, CI_Interval(samples)}

\* the list of the root_nodes of the entries that are not timed triggers
RECURSIVE FailuresFrom(_, _)
FailuresFrom(data, i) ==
    IF i > Len(data) THEN <<>>
    ELSE (IF data[i].timed_trigger THEN <<>> ELSE data[i].root_nodes)
             \o FailuresFrom(data, i + 1)

\* the loops of count_failures: node_failure_counts[node] += 1
RECURSIVE CountLoop(_, _, _)
CountLoop(failures, i, node_failure_counts) ==
    IF i > Len(failures) THEN Return_(node_failure_counts)
    ELSE IF failures[i] \notin DOMAIN node_failure_counts THEN Raise("KeyError")
    ELSE CountLoop(failures, i + 1,
                   [node_failure_counts EXCEPT ![failures[i]] = @ + 1])

\* {node: 0 for entry in wave_data for node in nodes}
zero_counts(data, node_set) ==
    IF Len(data) = 0 THEN <<>> ELSE [node \in node_set |-> 0]

\* count_failures(wave_data, nodes)
count_failures(data, node_set) ==
    IF ~validate_wave_data(data) THEN Raise("AssertionError")
    ELSE CountLoop(FailuresFrom(data, 1), 1, zero_counts(data, node_set))

\* the set of the base failure causes of one propagation
base_failure_nodes_of(wave, g) ==
    LET base_failures == find_base_failure_for_wave(wave, g)
    IN  UNION {base_failures[node] : node \in DOMAIN base_failures}

\* the loop of count_base_failures over the propagations
RECURSIVE BaseCountLoop(_, _, _, _)
BaseCountLoop(split_wave_data, i, g, base_failure_counts) ==
    IF i > Len(split_wave_data) THEN Return_(base_failure_counts)
    ELSE LET base_failure_nodes == base_failure_nodes_of(split_wave_data[i], g)
         IN  IF ~(base_failure_nodes \subseteq DOMAIN base_failure_counts)
             THEN Raise("KeyError")
             ELSE BaseCountLoop(split_wave_data, i + 1, g,
                      [node \in DOMAIN base_failure_counts |->
                          IF node \in base_failure_nodes
                          THEN base_failure_counts[node] + 1
                          ELSE base_failure_counts[node]])

\* count_base_failures(wave_data, graph)
count_base_failures(data, g) ==
    IF ~validate_wave_data(data) THEN Raise("AssertionError")
    ELSE BaseCountLoop(split_data_by_wave(data), 1, g, zero_counts(data, DOMAIN g))

\* count_func(time_period, graph)
count_func(failure_type, time_period, g) ==
    IF failure_type = "all" THEN count_failures(time_period, DOMAIN g)
    ELSE count_base_failures(time_period, g)

\* a variant of the assertion on the number of periods that always holds
always_enough_samples(list_of_wave_data_lists, min_num_samples) == TRUE

\* len(list_of_wave_data_lists) >= min_num_samples(proportion, confidence)
enough_samples(list_of_wave_data_lists, min_num_samples) ==
    Len(list_of_wave_data_lists) >= min_num_samples

\* the loop over the time periods: node_failures[node].append(...)
RECURSIVE PeriodLoop(_, _, _, _, _)
PeriodLoop(failure_type, list_of_wave_data_lists, i, g, node_failures) ==
    IF i > Len(list_of_wave_data_lists) THEN Return_(node_failures)
    ELSE LET node_failures_in_wave == count_func(failure_type, list_of_wave_data_lists[i], g)
         IN  IF node_failures_in_wave.raised # "None" THEN node_failures_in_wave
             ELSE IF ~(DOMAIN g \subseteq DOMAIN node_failures_in_wave.value)
             THEN Raise("KeyError")
             ELSE PeriodLoop(failure_type, list_of_wave_data_lists, i + 1, g,
                      [node \in DOMAIN g |->
                          Append(node_failures[node], node_failures_in_wave.value[node])])

\* _ci_for_failures_in_time_period: the results the call can have
ci_for_failures_in_time_period(failure_type, list_of_wave_data_lists, g, min_num_samples) ==
    IF failure_type \notin {"all", "base"} THEN {Raise("ValueError")}
    ELSE IF ~enough_samples(list_of_wave_data_lists, min_num_samples)
    THEN {Raise("AssertionError")}
    ELSE LET r == PeriodLoop(failure_type, list_of_wave_data_lists, 1, g,
                             [node \in DOMAIN g |-> <<>>])
         IN  IF r.raised # "None" THEN {r}
             ELSE { Return_(ci) :
                    ci \in { f \in [DOMAIN g -> {CI_None}
                                        \cup {CI_Interval(r.value[n]) : n \in DOMAIN g}] :
                             \A node \in DOMAIN g :
                                 f[node] \in
                                     IF Len(r.value[node]) >= min_num_samples
                                     THEN spa(r.value[node]) ELSE {CI_None} } }

\* while wave_data and not wave_data[0]['timed_trigger']: wave_data.pop(0)
RECURSIVE discard_until_trigger(_)
discard_until_trigger(data) ==
    IF data # <<>> /\ ~data[1].timed_trigger
    THEN discard_until_trigger(Tail(data))
    ELSE data

\* the loop of time_to_failure over the root nodes of the diagnosis entries,
\* each paired with the wave of its entry
RECURSIVE FailureWavesFrom(_, _)
FailureWavesFrom(data, i) ==
    IF i > Len(data) THEN <<>>
    ELSE (IF data[i].timed_trigger THEN <<>>
          ELSE [j \in 1..Len(data[i].root_nodes) |->
                   [node |-> data[i].root_nodes[j], wave |-> data[i].wave]])
             \o FailureWavesFrom(data, i + 1)

RECURSIVE TimeLoop(_, _, _, _)
TimeLoop(failures, i, times, time_of_last_failure) ==
    IF i > Len(failures) THEN Return_(times)
    ELSE LET node == failures[i].node
             wave == failures[i].wave
         IN  IF node \notin DOMAIN times THEN Raise("KeyError")
             ELSE TimeLoop(failures, i + 1,
                      [times EXCEPT ![node] = Append(@, wave - time_of_last_failure[node])],
                      [time_of_last_failure EXCEPT ![node] = wave])

\* time_to_failure(wave_data, nodes): node -> list of times to failure
time_to_failure(data, node_set) ==
    IF ~validate_wave_data(data) THEN Raise("AssertionError")
    ELSE LET sorted_data == discard_until_trigger(sorted_by_wave(data))
         IN  IF sorted_data = <<>> /\ node_set # {} THEN Raise("IndexError")
             ELSE TimeLoop(FailureWavesFrom(sorted_data, 1), 1,
                           [node \in node_set |-> <<>>],
                           [node \in node_set |-> sorted_data[1].wave])

\* the loop of time_to_failure_base over the propagations
RECURSIVE BaseTimeLoop(_, _, _, _, _)
BaseTimeLoop(split_wave_data, i, g, times, time_of_last_failure) ==
    IF i > Len(split_wave_data) THEN Return_(times)
    ELSE LET failure_time == split_wave_data[i][1].wave
             base_failure_nodes == base_failure_nodes_of(split_wave_data[i], g)
         IN  IF ~(base_failure_nodes \subseteq DOMAIN times) THEN Raise("KeyError")
             ELSE BaseTimeLoop(split_wave_data, i + 1, g,
                      [node \in DOMAIN times |->
                          IF node \in base_failure_nodes
                          THEN Append(times[node], failure_time - time_of_last_failure[node])
                          ELSE times[node]],
                      [node \in DOMAIN times |->
                          IF node \in base_failure_nodes THEN failure_time
                          ELSE time_of_last_failure[node]])

\* time_to_failure_base(wave_data, graph)
time_to_failure_base(data, g) ==
    IF ~validate_wave_data(data) THEN Raise("AssertionError")
    ELSE LET sorted_data == sorted_by_wave(data)
         IN  IF sorted_data = <<>> /\ DOMAIN g # {} THEN Raise("IndexError")
             ELSE BaseTimeLoop(split_data_by_wave(sorted_data), 1, g,
                               [node \in DOMAIN g |-> <<>>],
                               [node \in DOMAIN g |-> sorted_data[1].wave])

\* ci_time_to_failure(times_to_failure, proportion, confidence): the results
\* the call can have; .low of a confidence_interval that is None raises
ci_time_to_failure(times_to_failure, min_num_samples) ==
    LET node_set == DOMAIN times_to_failure
        enough == {node \in node_set : Len(times_to_failure[node]) >= min_num_samples}
    IN  { Return_([node \in node_set |->
                      IF node \in enough THEN CI_Interval(times_to_failure[node])
                      ELSE CI_None]) }
            \cup (IF enough # {} THEN {Raise("AttributeError")} ELSE {})

\* _ci_time_to_failure_wave_data(failure_type, wave_data, graph, proportion,
\* confidence): the name nodes, read at line 49, is bound nowhere
ci_time_to_failure_wave_data_(failure_type, data, g, min_num_samples) ==
    IF failure_type \notin {"all", "base"} THEN Raise("ValueError")
    ELSE Raise("NameError")

\* ci_time_to_failure_wave_data(wave_data, graph, proportion, confidence): the
\* argument nodes of its call at line 72 is bound nowhere
ci_time_to_failure_wave_data(data, g, min_num_samples) == Raise("NameError")

\* ci_time_to_failure_base_wave_data(wave_data, graph, proportion,
\* confidence): as above, at line 85
ci_time_to_failure_base_wave_data(data, g, min_num_samples) == Raise("NameError")

(***************************************************************************)
(* Calls of the confidence-interval functions on logs over C -> B -> A     *)
(***************************************************************************)
MaxPeriods == 2
MaxMinSamples == 3

\* the logs: none, Fixture2, a log where B fails twice and A once, a log
\* where A, B and C fail once each, and a log of a trigger alone
CILogs ==
    { <<>>,
      Fixture2,
      PropagationAt(ChainGraph, 1000, {A, B}, {B})
          \o PropagationAt(ChainGraph, 2000, {A, B}, {A, B}),
      PropagationAt(ChainGraph, 1000, {A, B, C}, {A, B, C}),
      <<WaveEvent(1000, TRUE, <<C>>, <<A, B>>)>> }

InitCI ==
    \E periods \in SeqsUpTo(CILogs, MaxPeriods), data \in CILogs,
       min_num_samples \in 1..MaxMinSamples :
        /\ graph = ChainGraph
        /\ input = [periods |-> periods, wave_data |-> data,
                    min_num_samples |-> min_num_samples]
        /\ output = NoCall
        /\ NoSimulator

\* ci_failures_per_time_period(list_of_wave_data_list, graph, proportion,
\* confidence)
Call_ci_failures_per_time_period ==
    /\ pc = "analysis"
    /\ \E r \in ci_for_failures_in_time_period("all", input.periods, graph,
                                               input.min_num_samples) :
           output' = [fn |-> "ci_failures_per_time_period", result |-> r]
    /\ Unchanged_but_output

\* ci_failures_base_per_time_period(node_failure_counts, graph, proportion,
\* confidence)
Call_ci_failures_base_per_time_period ==
    /\ pc = "analysis"
    /\ \E r \in ci_for_failures_in_time_period("base", input.periods, graph,
                                               input.min_num_samples) :
           output' = [fn |-> "ci_failures_base_per_time_period", result |-> r]
    /\ Unchanged_but_output

\* ci_time_to_failure(time_to_failure(wave_data, nodes), proportion, confidence)
Call_ci_time_to_failure ==
    /\ pc = "analysis"
    /\ LET times_to_failure == time_to_failure(input.wave_data, DOMAIN graph)
       IN  /\ times_to_failure.raised = "None"
           /\ \E r \in ci_time_to_failure(times_to_failure.value, input.min_num_samples) :
                  output' = [fn |-> "ci_time_to_failure", result |-> r]
    /\ Unchanged_but_output

\* ci_time_to_failure(time_to_failure_base(wave_data, graph), proportion,
\* confidence)
Call_ci_time_to_failure_of_base ==
    /\ pc = "analysis"
    /\ LET times_to_failure == time_to_failure_base(input.wave_data, graph)
       IN  /\ times_to_failure.raised = "None"
           /\ \E r \in ci_time_to_failure(times_to_failure.value, input.min_num_samples) :
                  output' = [fn |-> "ci_time_to_failure_of_base", result |-> r]
    /\ Unchanged_but_output

\* ci_time_to_failure_wave_data(wave_data, graph, proportion, confidence)
Call_ci_time_to_failure_wave_data ==
    /\ pc = "analysis"
    /\ output' = [fn |-> "ci_time_to_failure_wave_data",
                  result |-> ci_time_to_failure_wave_data(input.wave_data, graph,
                                                          input.min_num_samples)]
    /\ Unchanged_but_output

\* ci_time_to_failure_base_wave_data(wave_data, graph, proportion, confidence)
Call_ci_time_to_failure_base_wave_data ==
    /\ pc = "analysis"
    /\ output' = [fn |-> "ci_time_to_failure_base_wave_data",
                  result |-> ci_time_to_failure_base_wave_data(input.wave_data, graph,
                                                               input.min_num_samples)]
    /\ Unchanged_but_output

NextCI ==
    \/ Call_ci_failures_per_time_period
    \/ Call_ci_failures_base_per_time_period
    \/ Call_ci_time_to_failure
    \/ Call_ci_time_to_failure_of_base
    \/ Call_ci_time_to_failure_wave_data
    \/ Call_ci_time_to_failure_base_wave_data

SpecCI == InitCI /\ [][NextCI]_vars

(***************************************************************************)
(* C19                                                                     *)
(***************************************************************************)
\* C19: ci_failures_per_time_period and ci_failures_base_per_time_period fail
\* as a whole, with no per-node result, whenever the number of per-period logs
\* is smaller than min_num_samples(proportion, confidence)
C19_TooFewPeriodsFails ==
    (/\ output.fn \in {"ci_failures_per_time_period",
                       "ci_failures_base_per_time_period"}
     /\ Len(input.periods) < input.min_num_samples)
        => output.result = Raise("AssertionError")

\* a call on one period where two are required has failed
C19_Witness ==
    /\ output.fn = "ci_failures_base_per_time_period"
    /\ Len(input.periods) = 1
    /\ input.periods[1] # <<>>
    /\ input.min_num_samples = 2
    /\ output.result.raised = "AssertionError"

(***************************************************************************)
(* C20                                                                     *)
(***************************************************************************)
\* the mapping with one entry per node: the interval of the node's samples
\* when there are at least min_num_samples of them, and None otherwise
IntervalOrAbsent(times_to_failure, node_set, min_num_samples) ==
    [node \in node_set |->
        IF Len(times_to_failure[node]) >= min_num_samples
        THEN CI_Interval(times_to_failure[node])
        ELSE CI_None]

\* the times to failure the call named by output.fn is about
TimesToFailure ==
    IF output.fn \in {"ci_time_to_failure_wave_data", "ci_time_to_failure"}
    THEN time_to_failure(input.wave_data, DOMAIN graph)
    ELSE time_to_failure_base(input.wave_data, graph)

\* C20: ci_time_to_failure_wave_data and ci_time_to_failure_base_wave_data
\* return a mapping with one entry per graph node: the interval when the
\* node's number of time-to-failure samples reaches min_num_samples, and the
\* absent value for that node only otherwise
C20_PerNodeIntervalOrAbsent ==
    (/\ output.fn \in {"ci_time_to_failure_wave_data",
                       "ci_time_to_failure_base_wave_data"}
     /\ TimesToFailure.raised = "None")
        => output.result =
               Return_(IntervalOrAbsent(TimesToFailure.value, DOMAIN graph,
                                        input.min_num_samples))

\* what the code does: both calls raise NameError on every input
C20_AlwaysNameError ==
    output.fn \in {"ci_time_to_failure_wave_data",
                   "ci_time_to_failure_base_wave_data"}
        => output.result = Raise("NameError")

\* ci_time_to_failure itself, given the times to failure, returns the mapping
\* of the claim whenever it returns
C20_InnerPerNode ==
    (/\ output.fn \in {"ci_time_to_failure", "ci_time_to_failure_of_base"}
     /\ output.result.raised = "None")
        => output.result.value =
               IntervalOrAbsent(TimesToFailure.value, DOMAIN graph,
                                input.min_num_samples)

\* the call has raised on a log where B has enough samples and A has not
C20_RaisedOnSufficientSamples ==
    /\ output.fn = "ci_time_to_failure_wave_data"
    /\ output.result.raised = "NameError"
    /\ TimesToFailure.raised = "None"
    /\ Len(TimesToFailure.value[B]) >= input.min_num_samples
    /\ Len(TimesToFailure.value[A]) < input.min_num_samples
    /\ Len(TimesToFailure.value[A]) > 0

(***************************************************************************)
(* validate_wave_data on events of any shape (util.py).  A Python value is *)
(* known here by its class alone.                                          *)
(***************************************************************************)
\* the classes of the values, and the classes each one derives from
PyClasses == {"float", "numpy.float64", "int", "bool", "list", "tuple"}

bases(class) ==
    IF class = "numpy.float64" THEN {"numpy.float64", "float"}
    ELSE IF class = "bool" THEN {"bool", "int"}
    ELSE {class}

\* a variant of isinstance for which an int is a float as well
isinstance_numeric(value, class) ==
    \/ class \in bases(value.class)
    \/ (class = "float" /\ "int" \in bases(value.class))

\* isinstance(value, class)
isinstance(value, class) == class \in bases(value.class)

\* the first assertion of validate_wave_data: every entry has the four keys
has_wave_data_keys(data) ==
    \A i \in 1..Len(data) :
        /\ "wave" \in DOMAIN data[i]
        /\ "timed_trigger" \in DOMAIN data[i]
        /\ "root_nodes" \in DOMAIN data[i]
        /\ "submitted_nodes" \in DOMAIN data[i]

\* the second assertion of validate_wave_data: the classes of the four values
has_wave_data_types(data) ==
    \A i \in 1..Len(data) :
        /\ isinstance(data[i].wave, "float")
        /\ isinstance(data[i].timed_trigger, "bool")
        /\ isinstance(data[i].root_nodes, "list")
        /\ isinstance(data[i].submitted_nodes, "list")

\* validate_wave_data(data), on entries that are dicts from keys to values
util_validate_wave_data(data) ==
    IF ~has_wave_data_keys(data) THEN Raise("AssertionError")
    ELSE IF ~has_wave_data_types(data) THEN Raise("AssertionError")
    ELSE Return_("None")

MaxListLen == 3

PyValue(class) == [class |-> class]

\* a well-formed event
GoodEvent ==
    [wave |-> PyValue("float"), timed_trigger |-> PyValue("bool"),
     root_nodes |-> PyValue("list"), submitted_nodes |-> PyValue("list")]

\* the event e without the key k
WithoutKey(e, k) == [x \in DOMAIN e \ {k} |-> e[x]]

\* the events of the lists: the well-formed event with a wave of either float
\* class, the event lacking one key, the event with one value of another
\* class, and an event with two defects
ShapedEvents ==
    {GoodEvent, [GoodEvent EXCEPT !.wave = PyValue("numpy.float64")]}
        \cup {WithoutKey(GoodEvent, k) : k \in DOMAIN GoodEvent}
        \cup {[GoodEvent EXCEPT !.wave = PyValue(c)] : c \in {"int", "bool"}}
        \cup {[GoodEvent EXCEPT !.timed_trigger = PyValue("int")],
              [GoodEvent EXCEPT !.root_nodes = PyValue("tuple")],
              [GoodEvent EXCEPT !.submitted_nodes = PyValue("tuple")],
              WithoutKey([GoodEvent EXCEPT !.wave = PyValue("int")], "root_nodes")}

InitValidate ==
    \E data \in SeqsUpTo(ShapedEvents, MaxListLen) :
        /\ graph = <<>>
        /\ input = [data |-> data]
        /\ output = NoCall
        /\ NoSimulator

\* validate_wave_data(data); the function assigns to nothing, so the list
\* after the call is the list before it
Call_validate_wave_data ==
    /\ pc = "analysis"
    /\ output' = [fn |-> "validate_wave_data",
                  result |-> util_validate_wave_data(input.data),
                  data_after |-> input.data]
    /\ Unchanged_but_output

NextValidate == Call_validate_wave_data

SpecValidate == InitValidate /\ [][NextValidate]_vars

(***************************************************************************)
(* C21                                                                     *)
(***************************************************************************)
\* an event that lacks a key, or whose wave is no float, whose timed_trigger
\* is no bool, or whose root_nodes or submitted_nodes is no list
Malformed(e) ==
    \/ \E k \in {"wave", "timed_trigger", "root_nodes", "submitted_nodes"} :
           k \notin DOMAIN e
    \/ e.wave.class \notin {"float", "numpy.float64"}
    \/ e.timed_trigger.class # "bool"
    \/ e.root_nodes.class # "list"
    \/ e.submitted_nodes.class # "list"

\* C21: validate_wave_data fails for every list that holds a malformed event
\* (an integer wave included), succeeds otherwise, and leaves its input as it
\* was in both cases
C21_ValidateWaveData ==
    output.fn = "validate_wave_data" =>
        /\ (\E i \in 1..Len(input.data) : Malformed(input.data[i]))
               => output.result = Raise("AssertionError")
        /\ (\A i \in 1..Len(input.data) : ~Malformed(input.data[i]))
               => output.result = Return_("None")
        /\ output.data_after = input.data

\* a list whose only defect is an integer wave in its last event was rejected
C21_Witness ==
    /\ output.fn = "validate_wave_data"
    /\ Len(input.data) = 2
    /\ input.data[1] = GoodEvent
    /\ input.data[2] = [GoodEvent EXCEPT !.wave = PyValue("int")]
    /\ output.result = Raise("AssertionError")

(***************************************************************************)
(* calc_base_failure_proportion (data_analysis.py, base_failure.py).       *)
(* count / total is the division of two ints into a float.  A positive     *)
(* float is the record of its exponent exp and its significand sig, of     *)
(* value sig * 2^exp with 1/2 <= sig < 1; sig is a binary fraction of 53   *)
(* bits, held as four limbs of 16 bits of which the last 11 bits are 0.    *)
(***************************************************************************)
\* 2^16, the base of the limbs
LimbBase == 65536

\* 2^11: one unit in the last place of a significand, within its fourth limb
UlpLimb == 2048

\* the number of limbs of an exact sum
FixedLimbs == 6

\* 0.0
FloatZero == [exp |-> 0, sig |-> <<0, 0, 0, 0>>]

RECURSIVE Pow2(_)
Pow2(k) == IF k = 0 THEN 1 ELSE 2 * Pow2(k - 1)

\* n / d scaled by a power of two into [1/2, 1): n / d = (r.n / r.d) * 2^r.exp
RECURSIVE Normalize(_, _, _)
Normalize(n, d, exp) ==
    IF n >= d THEN Normalize(n, 2 * d, exp + 1)
    ELSE IF 2 * n < d THEN Normalize(2 * n, d, exp - 1)
    ELSE [n |-> n, d |-> d, exp |-> exp]

\* the first k limbs of r / d behind the point, and the remainder
RECURSIVE DivLimbs(_, _, _)
DivLimbs(r, d, k) ==
    IF k = 0 THEN [limbs |-> <<>>, r |-> r]
    ELSE LET rest == DivLimbs((r * LimbBase) % d, d, k - 1)
         IN  [limbs |-> <<(r * LimbBase) \div d>> \o rest.limbs, r |-> rest.r]

\* the sum of two fractions of as many limbs, from limb i down to the first
RECURSIVE AddFrom(_, _, _, _, _)
AddFrom(a, b, i, carry, acc) ==
    IF i = 0 THEN [limbs |-> acc, carry |-> carry]
    ELSE LET s == a[i] + b[i] + carry
         IN  AddFrom(a, b, i - 1, s \div LimbBase, [acc EXCEPT ![i] = s % LimbBase])

AddLimbs(a, b) == AddFrom(a, b, Len(a), 0, a)

\* the float nearest to f * 2^exp for a fraction f of at least four limbs in
\* [1/2, 1) that stands for a number of which inexact tells whether it is
\* greater than f: ties go to the even significand
RoundSig(f, exp, inexact) ==
    LET kept == <<f[1], f[2], f[3], f[4] - (f[4] % UlpLimb)>>
        guard == (f[4] \div (UlpLimb \div 2)) % 2
        sticky == \/ f[4] % (UlpLimb \div 2) # 0
                  \/ \E i \in 5..Len(f) : f[i] # 0
                  \/ inexact
        last == (f[4] \div UlpLimb) % 2
        up == AddLimbs(kept, <<0, 0, 0, UlpLimb>>)
    IN  IF ~(guard = 1 /\ (sticky \/ last = 1)) THEN [exp |-> exp, sig |-> kept]
        ELSE IF up.carry = 1 THEN [exp |-> exp + 1, sig |-> <<LimbBase \div 2, 0, 0, 0>>]
        ELSE [exp |-> exp, sig |-> up.limbs]

\* a variant of count / total that is the floor division count // total
floor_div(count, total) ==
    IF count < total THEN FloatZero
    ELSE [exp |-> 1, sig |-> <<LimbBase \div 2, 0, 0, 0>>]

\* count / total for ints 0 <= count and 0 < total: the float nearest to the
\* quotient
true_div(count, total) ==
    IF count = 0 THEN FloatZero
    ELSE LET s == Normalize(count, total, 0)
             q == DivLimbs(s.n, s.d, 4)
         IN  RoundSig(q.limbs, s.exp, q.r # 0)

\* sum(causes.values())
RECURSIVE sum_of_values(_)
sum_of_values(causes) ==
    IF DOMAIN causes = {} THEN 0
    ELSE LET cause == CHOOSE c \in DOMAIN causes : TRUE
         IN  causes[cause] + sum_of_values([c \in DOMAIN causes \ {cause} |-> causes[c]])

\* calc_base_failure_proportion(failure_stats)
calc_base_failure_proportion(failure_stats) ==
    IF ~validate_base_failure_stats(failure_stats) THEN Raise("AssertionError")
    ELSE IF \E node \in DOMAIN failure_stats :
                /\ DOMAIN failure_stats[node] # {}
                /\ sum_of_values(failure_stats[node]) = 0
    THEN Raise("ZeroDivisionError")
    ELSE Return_([node \in {n \in DOMAIN failure_stats : DOMAIN failure_stats[n] # {}} |->
                     [cause \in DOMAIN failure_stats[node] |->
                         true_div(failure_stats[node][cause],
                                  sum_of_values(failure_stats[node]))]])

\* the fraction f of FixedLimbs limbs divided by 2^k
ShiftRight(f, k) ==
    LET q == k \div 16
        s == k % 16
        At(i) == IF i \in 1..Len(f) THEN f[i] ELSE 0
    IN  [j \in 1..FixedLimbs |->
            At(j - q) \div Pow2(s) + (At(j - q - 1) % Pow2(s)) * Pow2(16 - s)]

\* half of a float not above 1, as an exact fraction of FixedLimbs limbs
HalfExact(x) == ShiftRight(x.sig, 1 - x.exp)

\* half of the exact sum of the proportions of a node
RECURSIVE HalfExactSum(_)
HalfExactSum(proportions) ==
    IF DOMAIN proportions = {} THEN [j \in 1..FixedLimbs |-> 0]
    ELSE LET cause == CHOOSE c \in DOMAIN proportions : TRUE
         IN  AddLimbs(HalfExact(proportions[cause]),
                      HalfExactSum([c \in DOMAIN proportions \ {cause} |->
                                       proportions[c]])).limbs

\* the float nearest to twice the fraction h, for h in [1/4, 1)
RoundTwice(h) ==
    IF h[1] >= LimbBase \div 2 THEN RoundSig(h, 1, FALSE)
    ELSE RoundSig(AddLimbs(h, h).limbs, 0, FALSE)

\* every count of the stats is in 0..MaxProportionCount
MaxProportionCount == 4

\* the dicts of causes: counts for any of the causes A, B and C
CauseDicts ==
    UNION {[S -> 0..MaxProportionCount] : S \in SUBSET {A, B, C}}

\* the stats: one downstream node C, or C and a downstream node B whose
\* counts are {A: 3, B: 1}
ProportionInputs ==
    {(C :> causes) : causes \in CauseDicts}
        \cup {(C :> causes) @@ (B :> ((A :> 3) @@ (B :> 1))) : causes \in CauseDicts}

InitProportion ==
    \E stats \in ProportionInputs :
        /\ graph = ChainGraph
        /\ input = [stats |-> stats]
        /\ output = NoCall
        /\ NoSimulator

Call_calc_base_failure_proportion ==
    /\ pc = "analysis"
    /\ output' = [fn |-> "calc_base_failure_proportion",
                  result |-> calc_base_failure_proportion(input.stats)]
    /\ Unchanged_but_output

NextProportion == Call_calc_base_failure_proportion

SpecProportion == InitProportion /\ [][NextProportion]_vars

(***************************************************************************)
(* C22                                                                     *)
(***************************************************************************)
\* the floats 1.0, 0.75 and 0.25
Float_1 == [exp |-> 1, sig |-> <<LimbBase \div 2, 0, 0, 0>>]
Float_0_75 == [exp |-> 0, sig |-> <<3 * (LimbBase \div 4), 0, 0, 0>>]
Float_0_25 == [exp |-> -1, sig |-> <<LimbBase \div 2, 0, 0, 0>>]

\* every downstream node of the stats has causes, of a positive total
PositiveTotals(stats) ==
    \A node \in DOMAIN stats :
        DOMAIN stats[node] # {} /\ sum_of_values(stats[node]) > 0

all_but_last(log) == SubSeq(log, 1, Len(log) - 1)

\* QuantumCalibrationSimulator.get_wave_data, get_check_data_results and
\* get_ground_truth: each returns the attribute it is given
get_log(log) == log

Getters == {"get_wave_data", "get_check_data_results", "get_ground_truth"}

\* the attribute a getter reads
Attribute(getter) ==
    CASE getter = "get_wave_data" -> wave_data
      [] getter = "get_check_data_results" -> check_data_results
      [] getter = "get_ground_truth" -> ground_truth

\* simulate() is not running: it has returned at its while test or raised
BetweenSimulateCalls == pc \in {"loop", "crashed"}

\* a call of a getter between two calls of simulate()
Call_get_wave_data ==
    /\ BetweenSimulateCalls
    /\ output' = [fn |-> "get_wave_data", result |-> get_log(wave_data)]
    /\ Unchanged_but_output

Call_get_check_data_results ==
    /\ BetweenSimulateCalls
    /\ output' = [fn |-> "get_check_data_results",
                  result |-> get_log(check_data_results)]
    /\ Unchanged_but_output

Call_get_ground_truth ==
    /\ BetweenSimulateCalls
    /\ output' = [fn |-> "get_ground_truth", result |-> get_log(ground_truth)]
    /\ Unchanged_but_output

NextGetters ==
    \/ Next
    \/ Call_get_wave_data
    \/ Call_get_check_data_results
    \/ Call_get_ground_truth

\* the getters are exercised on the simulations of one and of two nodes
InitGetters == Init /\ Len(node_names) <= 2

SpecGetters == InitGetters /\ [][NextGetters]_vars

\* the state of the simulator: everything but the value handed to the caller
simulator_state ==
    <<graph, root_nodes, time_step, node_names, nodes, wave_data,
      check_data_results, ground_truth, wave_offset, current_time, pc,
      timed_out_nodes, submitted_nodes, sub_idx, stack>>

\* a step that hands a log to the caller
GetterStep(getter) == output' # output /\ output'.fn = getter

\* C23: a getter call changes nothing in the simulator and returns the
\* attribute as it stands, so that a second call of the same getter with no
\* simulate() step in between (the attribute still equal to what the first
\* call returned) returns a value equal to the first
C23_GettersReadOnly ==
    [][\A getter \in Getters :
          /\ GetterStep(getter) =>
                /\ UNCHANGED simulator_state
                /\ output'.result = Attribute(getter)'
          /\ (output.fn = getter /\ output.result = Attribute(getter)) =>
                get_log(Attribute(getter)) = output.result]_vars

\* a getter has returned a log with several entries, and another getter had
\* been called before it
C23_Witness ==
    /\ output.fn = "get_wave_data"
    /\ Len(output.result) >= 2
    /\ output.result = wave_data
    /\ check_data_results # <<>>

(***************************************************************************)
(* The analysis functions applied to the list get_wave_data() returns      *)
(***************************************************************************)
\* the list object passed to time_to_failure once the call is over:
\* wave_data.sort(...) and wave_data.pop(0) act on the caller's list
list_after_time_to_failure(data) ==
    IF ~validate_wave_data(data) THEN data
    ELSE discard_until_trigger(sorted_by_wave(data))

\* the list object passed to time_to_failure_base once the call is over
list_after_time_to_failure_base(data) ==
    IF ~validate_wave_data(data) THEN data
    ELSE sorted_by_wave(data)

\* time_to_failure(sim.get_wave_data(), nodes): the argument is the list
\* self.wave_data itself
Call_time_to_failure_on_log ==
    /\ BetweenSimulateCalls
    /\ input' = [fn |-> "time_to_failure", data |-> get_log(wave_data)]
    /\ output' = [fn |-> "time_to_failure",
                  result |-> time_to_failure(get_log(wave_data), SeqToSet(node_names))]
    /\ wave_data' = list_after_time_to_failure(get_log(wave_data))
    /\ UNCHANGED <<graph, root_nodes, time_step, node_names, nodes,
                   check_data_results, ground_truth, wave_offset, current_time,
                   pc, timed_out_nodes, submitted_nodes, sub_idx, stack>>

\* time_to_failure_base(sim.get_wave_data(), graph)
Call_time_to_failure_base_on_log ==
    /\ BetweenSimulateCalls
    /\ input' = [fn |-> "time_to_failure_base", data |-> get_log(wave_data)]
    /\ output' = [fn |-> "time_to_failure_base",
                  result |-> time_to_failure_base(get_log(wave_data), graph)]
    /\ wave_data' = list_after_time_to_failure_base(get_log(wave_data))
    /\ UNCHANGED <<graph, root_nodes, time_step, node_names, nodes,
                   check_data_results, ground_truth, wave_offset, current_time,
                   pc, timed_out_nodes, submitted_nodes, sub_idx, stack>>

NextReadLog ==
    \/ Next
    \/ Call_time_to_failure_on_log
    \/ Call_time_to_failure_base_on_log

SpecReadLog == InitGetters /\ [][NextReadLog]_vars

\* a step that analyses the log: simulate() is not running before it and has
\* not been entered by it
AnalysisStep ==
    /\ BetweenSimulateCalls
    /\ pc' = pc
    /\ input'.fn \in {"time_to_failure", "time_to_failure_base"}

\* C24: time_to_failure and time_to_failure_base leave the list they are
\* given as it was, so the simulator's wave log is the same after the
\* analysis as before
C24_LogReadOnly == [][AnalysisStep => wave_data' = wave_data]_vars

\* what the code does instead: after the call the log is the stable sort by
\* wave of the log before it
C24_LogSortedInPlace ==
    [][AnalysisStep => wave_data' = sorted_by_wave(wave_data)]_vars

\* the simulator's log has been reordered by an analysis call
C24_LogReordered ==
    /\ input.fn \in {"time_to_failure", "time_to_failure_base"}
    /\ wave_data # input.data
    /\ Len(wave_data) = Len(input.data)

(***************************************************************************)
(* organize_check_data_by_wave on logs with repeated and late triggers     *)
(***************************************************************************)
MaxOrganizeEvents == 3
MaxOrganizeChecks == 2

\* timed triggers at 1.0 and 2.0 and a diagnosis event at 1.5
OrganizeEvents ==
    { [wave |-> w, timed_trigger |-> TRUE, root_nodes |-> <<C>>,
       submitted_nodes |-> <<C>>] : w \in {1000, 2000} }
        \cup { [wave |-> 1500, timed_trigger |-> FALSE, root_nodes |-> <<C>>,
                submitted_nodes |-> <<B>>] }

\* check results before, at, between and behind the triggers
OrganizeChecks == {CheckEntry(C, w, 0) : w \in {500, 1000, 1500, 2000, 2500}}

InitOrganize ==
    \E d \in SeqsUpTo(OrganizeEvents, MaxOrganizeEvents),
       c \in SeqsUpTo(OrganizeChecks, MaxOrganizeChecks) :
        /\ graph = ChainGraph
        /\ input = [wave_data |-> d, check_data |-> c]
        /\ output = NoCall
        /\ NoSimulator

NextOrganize == Call_organize_check_data_by_wave

SpecOrganize == InitOrganize /\ [][NextOrganize]_vars

\* the wave values of the timed triggers of the log
TriggerWaves(data) ==
    {data[i].wave : i \in {j \in 1..Len(data) : data[j].timed_trigger}}

\* low is the greatest trigger wave that does not exceed wave
GreatestTriggerNotAbove(data, low, wave) ==
    /\ low \in TriggerWaves(data)
    /\ low <= wave
    /\ \A t \in TriggerWaves(data) : t <= wave => t <= low

\* C25: organize_check_data_by_wave returns one bucket per distinct wave value
\* of the timed triggers; the bucket of a trigger wave holds, in the order of
\* check_data, exactly the check results for which it is the greatest trigger
\* wave not above the result's wave, so that a result at or behind the first
\* trigger lies in one bucket and a result before it in none
C25_Buckets ==
    output.fn = "organize_check_data_by_wave" =>
        LET organized_results == output.result.value
        IN  /\ DOMAIN organized_results = TriggerWaves(input.wave_data)
            /\ \A low \in DOMAIN organized_results :
                  organized_results[low]
                     = SelectSeq(input.check_data,
                          LAMBDA result :
                              GreatestTriggerNotAbove(input.wave_data, low, result.wave))

\* two triggers of one wave value and a later trigger; results before the first
\* trigger, exactly on the second trigger's wave and behind the last trigger
C25_Witness ==
    /\ output.fn = "organize_check_data_by_wave"
    /\ Len(input.wave_data) = 3
    /\ DOMAIN output.result.value = {1000, 2000}
    /\ \E i \in 1..Len(input.check_data) : input.check_data[i].wave = 2000
    /\ \E i \in 1..Len(input.check_data) : input.check_data[i].wave = 500
    /\ Len(output.result.value[2000]) = 1
    /\ output.result.value[1000] = <<>>

(***************************************************************************)
(* Which nodes' timeouts start a timed trigger                             *)
(***************************************************************************)
\* the nodes of the graph without an incoming dependency edge
NodesWithoutPredecessor(g) ==
    {n \in DOMAIN g : \A m \in DOMAIN g : \A i \in 1..Len(g[m]) : g[m][i] # n}

\* the test of simulate() Step 1 for one node
timeout_elapsed(ns, name, time) == time - ns[name].last_check >= ns[name].timeout

\* a step of simulate() that appends a timed-trigger WaveEvent
EmitsTimedTrigger ==
    /\ pc = "loop"
    /\ Len(wave_data') = Len(wave_data) + 1
    /\ wave_data'[Len(wave_data')].timed_trigger

\* C26: a timed-trigger WaveEvent is emitted in a step only if the timeout of
\* some root node, a node without an incoming dependency edge, has elapsed
C26_OnlyRootTimeoutsTrigger ==
    [][EmitsTimedTrigger =>
          \E root \in NodesWithoutPredecessor(graph) \cup SeqToSet(root_nodes) :
              timeout_elapsed(nodes, root, current_time)]_vars

\* what the code does instead: the trigger is emitted exactly when the timeout
\* of some node of the nodes dict has elapsed, root or not
C26_AnyTimeoutTriggers ==
    [][(pc = "loop" /\ pc' = "check") =>
          (EmitsTimedTrigger <=>
              \E name \in SeqToSet(node_names) :
                  timeout_elapsed(nodes, name, current_time))]_vars

\* a timed trigger has been emitted in this step although no root node had
\* timed out
C26_NonRootTriggered ==
    /\ pc = "check"
    /\ timed_out_nodes # <<>>
    /\ SeqToSet(timed_out_nodes) \cap
          (NodesWithoutPredecessor(graph) \cup SeqToSet(root_nodes)) = {}
    /\ wave_data # <<>>
    /\ wave_data[Len(wave_data)].timed_trigger
    /\ wave_data[Len(wave_data)].wave = current_time

(***************************************************************************)
(* OAFCalibrationJob: the run cycle of the meta experiment of one node     *)
(***************************************************************************)
\* a run() whose finally clause writes nothing
keep_datasets(datasets, job) == datasets

\* finally: set_dataset(self._my_dataset_keys[cls.DIAGNOSE_FLAG_KEY], False)
clear_diagnose_flag(datasets, job) == [datasets EXCEPT ![job].diagnose_flag = FALSE]

\* the BadDataError handler: the diagnose flag of every dependency is set
RECURSIVE set_dependency_flags(_, _, _)
set_dependency_flags(datasets, dependencies, i) ==
    IF i > Len(dependencies) THEN datasets
    ELSE set_dependency_flags(
             [datasets EXCEPT ![dependencies[i]].diagnose_flag = TRUE],
             dependencies, i + 1)

\* the datasets of a node: its diagnose flag and the times of its last
\* calibration and last check
Datasets(flag) == [diagnose_flag |-> flag, last_cal |-> 0, last_check |-> 0]

\* time.time() of the run
Now == 1000

CheckExceptions == {"None", "BadDataError", "OutOfSpecError", "RuntimeError"}

\* the job of node B of C -> B -> A at the start of run(); the flags are
\* as earlier runs and diagnosis waves have left them
InitJob ==
    \E flags \in [{A, B, C} -> BOOLEAN], greedy \in BOOLEAN,
       timeout \in {"None", "set"}, ce \in CheckExceptions :
        /\ graph = ChainGraph
        /\ root_nodes = <<>>
        /\ time_step = 1
        /\ node_names = <<A, B, C>>
        /\ nodes = [n \in {A, B, C} |-> Datasets(flags[n])]
        /\ wave_data = <<>>
        /\ check_data_results = <<>>
        /\ ground_truth = <<>>
        /\ wave_offset = 0
        /\ current_time = Now
        /\ pc = "run"
        /\ timed_out_nodes = <<>>
        /\ submitted_nodes = <<>>
        /\ sub_idx = 1
        /\ stack = << [self |-> [_check_analyze |-> FALSE, _cal_analyze |-> FALSE,
                                  _calibration_exp |-> "None"],
                        wave_data |-> <<>>,
                        completion |-> [path |-> "None", raised |-> "None"]] >>
        /\ input = [job |-> B, GREEDY_FAILURE |-> greedy, timeout |-> timeout,
                    check_exception |-> ce, diagnose_flag |-> flags[B]]
        /\ output = NoCall

\* what is left alone by every step of run(): all but the datasets, the
\* position, the activation of run(), the points written, the submissions
\* and the result
Job_frame ==
    UNCHANGED <<graph, root_nodes, time_step, node_names, ground_truth,
                wave_offset, current_time, timed_out_nodes, sub_idx, input,
                wave_data>>

\* the condition of line 139 up to the call of check_state()
calls_check_state == ~nodes[input.job].diagnose_flag /\ input.timeout # "None"

\* lines 150-162 and 196-208: the list of one point of measurement
\* 'node_results', both results 'None'
node_results_point(name) ==
    << [measurement |-> "node_results",
        tags |-> [node_name |-> name],
        fields |-> [check_time |-> Now, check_result |-> "None",
                    calibration_result |-> "None"]] >>

\* wave_data[0]['fields'][field] = result
with_field(points, field, result) ==
    [points EXCEPT ![1].fields = [@ EXCEPT ![field] = result]]

\* a client that stores every list of points twice
write_points_twice(written, points) == written \o points \o points

\* self._optimus_influx.write_points(wave_data)
write_points(written, points) == written \o points

\* a job that submits no barrier
no_barrier(submissions) == submissions

\* self.submit_barrier()
submit_barrier(submissions) == Append(submissions, [kind |-> "barrier"])

\* the activation of run(): self, the local wave_data and, once run() is on
\* its way out, how it is left
Frame == stack[1]

\* lines 139-141: check_state() returns True, run() returns
Run_in_spec ==
    /\ pc = "run"
    /\ calls_check_state
    /\ stack' = <<[Frame EXCEPT !.completion = [path |-> "in_spec", raised |-> "None"]]>>
    /\ pc' = "finally"
    /\ Job_frame
    /\ UNCHANGED <<nodes, submitted_nodes, check_data_results, output>>

\* lines 139-162: the check_state test is false, the first point is prepared
Run_to_check_data ==
    /\ pc = "run"
    /\ stack' = <<[Frame EXCEPT !.wave_data = node_results_point(input.job)]>>
    /\ pc' = "check_data"
    /\ Job_frame
    /\ UNCHANGED <<nodes, submitted_nodes, check_data_results, output>>

\* lines 165-169, 186-192: the check passes; the point is written with
\* check_result 'Pass', LAST_CHECK is written, return
Run_check_passed ==
    /\ pc = "check_data"
    /\ input.check_exception = "None"
    /\ LET points == with_field(Frame.wave_data, "check_result", "Pass")
       IN  /\ check_data_results' = write_points(check_data_results, points)
           /\ stack' = <<[Frame EXCEPT !.self._check_analyze = TRUE,
                                        !.wave_data = points,
                                        !.completion = [path |-> "check_passed",
                                                        raised |-> "None"]]>>
    /\ nodes' = [nodes EXCEPT ![input.job].last_check = Now]
    /\ pc' = "finally"
    /\ Job_frame
    /\ UNCHANGED <<submitted_nodes, output>>

\* lines 170-181: BadDataError, raised by the check experiment or preset in
\* self._check_exception: the dependencies are flagged, the diagnosis wave of
\* depth 1 and start depth 1 is submitted, check_result becomes 'Fail'
Run_bad_data ==
    /\ pc = "check_data"
    /\ input.check_exception \in {"None", "BadDataError"}
    /\ nodes' = set_dependency_flags(nodes, graph[input.job], 1)
    /\ submitted_nodes' = Append(submitted_nodes,
                                 [kind |-> "wave", node |-> input.job,
                                  policy |-> "GREEDY", depth |-> 1, start_depth |-> 1])
    /\ stack' = <<[Frame EXCEPT
                      !.self._check_analyze = (input.check_exception = "None"),
                      !.wave_data = with_field(@, "check_result", "Fail")]>>
    /\ pc' = "check_failed"
    /\ Job_frame
    /\ UNCHANGED <<check_data_results, output>>

\* lines 183-185: OutOfSpecError, check_result becomes 'Fail'
Run_out_of_spec ==
    /\ pc = "check_data"
    /\ input.check_exception \in {"None", "OutOfSpecError"}
    /\ stack' = <<[Frame EXCEPT
                      !.self._check_analyze = (input.check_exception = "None"),
                      !.wave_data = with_field(@, "check_result", "Fail")]>>
    /\ pc' = "check_failed"
    /\ Job_frame
    /\ UNCHANGED <<nodes, submitted_nodes, check_data_results, output>>

\* lines 194-211: wave_data is assigned a new list of one point and the
\* calibration experiment is created
Run_to_calibration ==
    /\ pc = "check_failed"
    /\ stack' = <<[Frame EXCEPT !.wave_data = node_results_point(input.job),
                                !.self._calibration_exp = "created"]>>
    /\ pc' = "calibrate"
    /\ Job_frame
    /\ UNCHANGED <<nodes, submitted_nodes, check_data_results, output>>

\* lines 212-213, 220-227: the calibration succeeds; the point is written
\* with calibration_result 'Pass', LAST_CAL is written
Run_calibrated ==
    /\ pc = "calibrate"
    /\ LET points == with_field(Frame.wave_data, "calibration_result", "Pass")
       IN  /\ check_data_results' = write_points(check_data_results, points)
           /\ stack' = <<[Frame EXCEPT !.self._cal_analyze = TRUE,
                                        !.wave_data = points,
                                        !.completion = [path |-> "calibrated",
                                                        raised |-> "None"]]>>
    /\ nodes' = [nodes EXCEPT ![input.job].last_cal = Now]
    /\ pc' = "finally"
    /\ Job_frame
    /\ UNCHANGED <<submitted_nodes, output>>

\* lines 214-219: FailedCalibrationError is caught; the point is written with
\* calibration_result 'Fail' and a barrier is submitted
Run_failed_calibration ==
    /\ pc = "calibrate"
    /\ LET points == with_field(Frame.wave_data, "calibration_result", "Fail")
       IN  /\ check_data_results' = write_points(check_data_results, points)
           /\ stack' = <<[Frame EXCEPT !.wave_data = points,
                                        !.completion = [path |-> "failed_calibration",
                                                        raised |-> "None"]]>>
    /\ submitted_nodes' = submit_barrier(submitted_nodes)
    /\ pc' = "finally"
    /\ Job_frame
    /\ UNCHANGED <<nodes, output>>

\* any other exception inside the try block: of check_state(), of the check
\* experiment or self._check_exception, of the calibration experiment
Run_raises ==
    /\ \/ pc = "run" /\ calls_check_state
       \/ pc = "check_data" /\ input.check_exception \in {"None", "RuntimeError"}
       \/ pc = "calibrate"
    /\ stack' = <<[Frame EXCEPT !.completion = [path |-> pc, raised |-> "RuntimeError"]]>>
    /\ pc' = "except"
    /\ Job_frame
    /\ UNCHANGED <<nodes, submitted_nodes, check_data_results, output>>

\* lines 228-231: GREEDY_FAILURE, the exception is logged and a barrier is
\* submitted; the exception goes no further
Run_swallows ==
    /\ pc = "except"
    /\ input.GREEDY_FAILURE
    /\ submitted_nodes' = submit_barrier(submitted_nodes)
    /\ stack' = <<[Frame EXCEPT !.completion = [path |-> "swallowed", raised |-> "None",
                                                 from |-> @.path]]>>
    /\ pc' = "finally"
    /\ Job_frame
    /\ UNCHANGED <<nodes, check_data_results, output>>

\* lines 232-233: the exception is raised again
Run_reraises ==
    /\ pc = "except"
    /\ ~input.GREEDY_FAILURE
    /\ stack' = <<[Frame EXCEPT !.completion = [path |-> "reraised", raised |-> @.raised,
                                                 from |-> @.path]]>>
    /\ pc' = "finally"
    /\ Job_frame
    /\ UNCHANGED <<nodes, submitted_nodes, check_data_results, output>>

\* lines 234-236: the finally clause, then run() is left
Run_finally ==
    /\ pc = "finally"
    /\ nodes' = clear_diagnose_flag(nodes, input.job)
    /\ output' = [fn |-> "run", path |-> Frame.completion.path,
                  raised |-> Frame.completion.raised, self |-> Frame.self]
    /\ stack' = <<>>
    /\ pc' = "exited"
    /\ Job_frame
    /\ UNCHANGED <<submitted_nodes, check_data_results>>

NextJob ==
    \/ Run_in_spec
    \/ Run_to_check_data
    \/ Run_check_passed
    \/ Run_bad_data
    \/ Run_out_of_spec
    \/ Run_to_calibration
    \/ Run_calibrated
    \/ Run_failed_calibration
    \/ Run_raises
    \/ Run_swallows
    \/ Run_reraises
    \/ Run_finally

SpecJob == InitJob /\ [][NextJob]_vars

ExitPaths ==
    {"in_spec", "check_passed", "calibrated", "failed_calibration", "swallowed",
     "reraised"}

\* C27: on whichever path run() is left, by a return, by falling off its end
\* or by the exception raised again, the diagnose flag of the node is False
C27_FlagClearedOnExit ==
    pc = "exited" =>
        /\ output.path \in ExitPaths
        /\ ~nodes[input.job].diagnose_flag

\* run() was started with the flag set, flagged its dependency after a
\* BadDataError and was left by the exception of the calibration raised again
C27_Witness ==
    /\ pc = "exited"
    /\ input.diagnose_flag
    /\ output.path = "reraised"
    /\ output.raised = "RuntimeError"
    /\ submitted_nodes # <<>>
    /\ nodes[A].diagnose_flag

(***************************************************************************)
(* OAFDaxScheduler.wave                                                    *)
(***************************************************************************)
\* NodeAction of the scheduler library
NodeActions == {"PASS", "RUN", "FORCE"}

\* NodeAction.submittable()
submittable_action(action) == action \in {"RUN", "FORCE"}

\* Policy.action(previous, current) of the scheduler library: the lazy policy
\* follows the node, the greedy policy runs what follows a run
policy_action(policy, previous, current) ==
    IF "FORCE" \in {previous, current} THEN "RUN"
    ELSE IF policy = "GREEDY"
         THEN (IF "RUN" \in {previous, current} THEN "RUN" ELSE "PASS")
         ELSE current

\* self._graph_reversed: the successors of a node are its predecessors in g
graph_reversed(g) ==
    [n \in DOMAIN g |->
        SetToSeq({m \in DOMAIN g : \E i \in 1..Len(g[m]) : g[m][i] = n})]

\* a submit that does not look into the set of submitted nodes
submit_again(st, node, at) ==
    [st EXCEPT !.trace = Append(@, [kind |-> "submit", node |-> node, at |-> at]),
               !.submitted = @ \cup {node}]

\* submit(node) of wave(): node.submit is called for a node not yet in
\* submitted; st is the trace of calls so far and the set submitted, at is
\* the activation of recurse that makes the call
submit(st, node, at) ==
    IF node \notin st.submitted
    THEN [st EXCEPT !.trace = Append(@, [kind |-> "submit", node |-> node, at |-> at]),
                    !.submitted = @ \cup {node}]
    ELSE st

\* a wave that submits behind the recursion exactly when reverse is set
submits_behind(reverse) == ~reverse

\* line 89: if submittable and reverse, the node is submitted before the
\* recursion; line 98: if submittable and not reverse, behind it
submits_before(reverse) == reverse

\* a recursion that is entered whatever the remaining depth
always_recurses(current_depth) == TRUE

\* line 93: if current_depth != 0
recurses(current_depth) == current_depth # 0

\* recurse(node, action, current_depth, current_start_depth) of the wave w;
\* at is the activation: the position of the root in root_nodes and the path
\* from the root to the node
RECURSIVE wave_recurse(_, _, _, _, _, _, _)
RECURSIVE recurse_successors(_, _, _, _, _, _, _, _)
wave_recurse(st, w, node, action, current_depth, current_start_depth, at) ==
    LET visits == current_start_depth <= 0
        new_action == IF visits THEN policy_action(w.policy, action, w.visit[node])
                      ELSE action
        submittable == IF visits THEN submittable_action(new_action) ELSE FALSE
        st1 == [st EXCEPT !.trace = Append(@, [kind |-> "enter", node |-> node,
                                               at |-> at, action |-> action])]
        st2 == IF visits
               THEN [st1 EXCEPT !.trace = Append(@, [kind |-> "visit", node |-> node,
                                                      at |-> at])]
               ELSE st1
        st3 == IF submittable /\ submits_before(w.reverse)
               THEN submit(st2, node, at) ELSE st2
        st4 == IF recurses(current_depth)
               THEN recurse_successors(st3, w, node, 1, new_action, current_depth,
                                       current_start_depth, at)
               ELSE st3
        st5 == IF submittable /\ ~submits_before(w.reverse)
               THEN submit(st4, node, at) ELSE st4
    IN  [st5 EXCEPT !.trace = Append(@, [kind |-> "leave", node |-> node, at |-> at])]

\* for successor in graph.successors(node), from the i-th successor on
recurse_successors(st, w, node, i, new_action, current_depth, current_start_depth, at) ==
    IF i > Len(w.graph[node]) THEN st
    ELSE recurse_successors(
             wave_recurse(st, w, w.graph[node][i], new_action, current_depth - 1,
                     current_start_depth - 1,
                     [at EXCEPT !.path = Append(@, w.graph[node][i])]),
             w, node, i + 1, new_action, current_depth, current_start_depth, at)

\* for root_node in root_nodes: recurse(root_node, root_action, depth, start_depth)
RECURSIVE recurse_roots(_, _, _, _, _, _, _)
recurse_roots(st, w, roots, i, root_action, depth, start_depth) ==
    IF i > Len(roots) THEN st
    ELSE recurse_roots(
             wave_recurse(st, w, roots[i], root_action, depth, start_depth,
                     [root |-> i, path |-> <<roots[i]>>]),
             w, roots, i + 1, root_action, depth, start_depth)

\* wave(wave, root_nodes, root_action, policy, reverse, priority, depth,
\* start_depth): the calls made, in order, and the set submitted
wave(g, visit, roots, root_action, policy, reverse, depth, start_depth) ==
    recurse_roots([trace |-> <<>>, submitted |-> {}],
                  [graph |-> IF reverse THEN graph_reversed(g) ELSE g,
                   reverse |-> reverse, policy |-> policy, visit |-> visit],
                  roots, 1, root_action, depth, start_depth)

\* repr of a str: the name between single quotes
py_repr(name) == <<"'">> \o name \o <<"'">>

\* str(list_of_names), character by character: "['A', 'B']"
RECURSIVE py_join_reprs(_, _)
py_join_reprs(names, i) ==
    IF i > Len(names) THEN <<>>
    ELSE (IF i > 1 THEN <<",", " ">> ELSE <<>>) \o py_repr(names[i])
            \o py_join_reprs(names, i + 1)

py_str_of_list(names) == <<"[">> \o py_join_reprs(names, 1) \o <<"]">>

\* the orders in which a set can be iterated
IterationOrders(S) ==
    {s \in [1..Cardinality(S) -> S] : \A i, j \in 1..Cardinality(S) : s[i] = s[j] => i = j}

\* a wave counted as a timed trigger whenever its depth is unbounded
unbounded_depth(depth, start_depth) == depth = -1

\* line 116: 'timed_trigger': depth == -1 and start_depth == 0
is_timed_trigger(depth, start_depth) == depth = -1 /\ start_depth = 0

\* lines 111-121: the point of measurement 'waves'; submitted_order is the
\* order in which the set submitted is iterated
waves_point(wave_id, roots, submitted_order, depth, start_depth) ==
    [measurement |-> "waves",
     fields |-> [wave_id |-> wave_id,
                 timed_trigger |-> is_timed_trigger(depth, start_depth),
                 root_nodes |-> py_str_of_list(roots),
                 submitted_nodes |-> py_str_of_list(submitted_order)]]

MaxDepth == 2
MaxStartDepth == 2

\* collections of root nodes of D -> B -> A, D -> C -> A: a single root, two
\* roots of which one lies below the other, the same root twice, the leaf
WaveRoots == {<<D>>, <<D, B>>, <<B, C>>, <<D, D>>, <<A>>}

InitWave ==
    \E roots \in WaveRoots, root_action \in NodeActions,
       policy \in {"LAZY", "GREEDY"}, reverse \in BOOLEAN,
       depth \in -1..MaxDepth, start_depth \in 0..MaxStartDepth,
       visit \in [DOMAIN DiamondGraph -> {"PASS", "RUN"}] :
        /\ graph = DiamondGraph
        /\ input = [wave |-> Now, root_nodes |-> roots, root_action |-> root_action,
                    policy |-> policy, reverse |-> reverse, depth |-> depth,
                    start_depth |-> start_depth, visit |-> visit]
        /\ output = NoCall
        /\ NoSimulator

Call_wave ==
    /\ pc = "analysis"
    /\ output = NoCall
    /\ LET r == wave(graph, input.visit, input.root_nodes, input.root_action,
                     input.policy, input.reverse, input.depth, input.start_depth)
       IN  \E submitted_order \in IterationOrders(r.submitted) :
               output' = [fn |-> "wave", trace |-> r.trace, submitted |-> r.submitted,
                          points |-> << waves_point(input.wave, input.root_nodes,
                                                    submitted_order, input.depth,
                                                    input.start_depth) >>]
    /\ Unchanged_but_output

NextWave == Call_wave

SpecWave == InitWave /\ [][NextWave]_vars

\* the positions of the trace at which node.submit is called for node
SubmitCalls(trace, node) ==
    {k \in 1..Len(trace) : trace[k].kind = "submit" /\ trace[k].node = node}

\* the positions at which recurse is entered for node
Entries(trace, node) ==
    {k \in 1..Len(trace) : trace[k].kind = "enter" /\ trace[k].node = node}

\* C28: in one call of wave(), node.submit is called at most once for a node
C28_SubmittedOnce ==
    output.fn = "wave" =>
        \A node \in DOMAIN graph : Cardinality(SubmitCalls(output.trace, node)) <= 1

\* a node reached along two paths and found submittable on both is submitted
\* once
C28_Witness ==
    /\ output.fn = "wave"
    /\ \E node \in DOMAIN graph :
          /\ Cardinality(Entries(output.trace, node)) >= 2
          /\ \A k \in Entries(output.trace, node) :
                submittable_action(policy_action(input.policy, output.trace[k].action,
                                                 input.visit[node]))
          /\ Cardinality(SubmitCalls(output.trace, node)) = 1
    /\ input.start_depth = 0

\* the positions at which recurse is entered for a successor by the
\* activation at, and those at which such a call returns
SuccessorEntries(trace, at) ==
    {k \in 1..Len(trace) :
        /\ trace[k].kind = "enter"
        /\ trace[k].at.root = at.root
        /\ Len(trace[k].at.path) = Len(at.path) + 1
        /\ SubSeq(trace[k].at.path, 1, Len(at.path)) = at.path}

SuccessorReturns(trace, at) ==
    {k \in 1..Len(trace) :
        /\ trace[k].kind = "leave"
        /\ trace[k].at.root = at.root
        /\ Len(trace[k].at.path) = Len(at.path) + 1
        /\ SubSeq(trace[k].at.path, 1, Len(at.path)) = at.path}

\* C29: a call of node.submit made by an activation of recurse comes before
\* that activation enters the recursion into any successor when reverse is
\* set, and behind the return of the recursion from every successor when it
\* is not
C29_SubmitOrder ==
    output.fn = "wave" =>
        \A k \in 1..Len(output.trace) :
            output.trace[k].kind = "submit" =>
                IF input.reverse
                THEN \A j \in SuccessorEntries(output.trace, output.trace[k].at) : k < j
                ELSE /\ \A j \in SuccessorEntries(output.trace, output.trace[k].at) : j < k
                     /\ \A j \in SuccessorReturns(output.trace, output.trace[k].at) : j < k

\* a wave in which a node has been submitted by an activation that recursed
\* into two successors
SubmittedWithRecursion ==
    /\ output.fn = "wave"
    /\ \E k \in 1..Len(output.trace) :
          /\ output.trace[k].kind = "submit"
          /\ Cardinality(SuccessorEntries(output.trace, output.trace[k].at)) >= 2

\* such a forward wave
C29_Witness == SubmittedWithRecursion /\ ~input.reverse

\* such a reverse wave
C29_WitnessReverse == SubmittedWithRecursion /\ input.reverse

\* the graph the wave runs over
WaveGraph == IF input.reverse THEN graph_reversed(graph) ELSE graph

\* the number of edges between the root and the node of an activation
Level(at) == Len(at.path) - 1

\* the direct successors of the root nodes
RootSuccessors ==
    UNION {SeqToSet(WaveGraph[input.root_nodes[i]]) : i \in 1..Len(input.root_nodes)}

\* C30: with depth d >= 0 nothing is entered, visited or submitted more than
\* d edges below a root; with depth -1 the recursion enters every successor
\* of every node it has entered; an activation whose remaining start depth is
\* positive neither visits nor submits and hands the action it was given to
\* its successors; a wave of depth 1 and start depth 1 submits direct
\* successors of its roots only
C30_DepthAndStartDepth ==
    output.fn = "wave" =>
        LET trace == output.trace
        IN  /\ input.depth >= 0 =>
                  \A k \in 1..Len(trace) : Level(trace[k].at) <= input.depth
            /\ input.depth = -1 =>
                  \A k \in 1..Len(trace) :
                      trace[k].kind = "enter" =>
                          Cardinality(SuccessorEntries(trace, trace[k].at))
                              = Len(WaveGraph[trace[k].node])
            /\ \A k \in 1..Len(trace) :
                  Level(trace[k].at) < input.start_depth =>
                      /\ trace[k].kind \notin {"visit", "submit"}
                      /\ trace[k].kind = "enter" =>
                            \A j \in SuccessorEntries(trace, trace[k].at) :
                                trace[j].action = trace[k].action
            /\ \A k \in 1..Len(trace) :
                  (trace[k].kind = "enter" /\ Level(trace[k].at) >= input.start_depth) =>
                      \E j \in 1..Len(trace) :
                          trace[j].kind = "visit" /\ trace[j].at = trace[k].at
            /\ (input.depth = 1 /\ input.start_depth = 1) =>
                  output.submitted \subseteq RootSuccessors

\* the diagnosis wave of depth 1 and start depth 1 from D: B and C are
\* submitted, the root is not visited, and A, two edges below, is not entered
C30_Witness ==
    /\ output.fn = "wave"
    /\ input.depth = 1
    /\ input.start_depth = 1
    /\ input.root_nodes = <<D>>
    /\ ~input.reverse
    /\ output.submitted = {B, C}
    /\ Entries(output.trace, A) = {}
    /\ \A k \in 1..Len(output.trace) :
          output.trace[k].kind = "visit" => output.trace[k].node \in {B, C}

\* a wave of depth -1 from D has entered A along both paths
C30_WitnessUnbounded ==
    /\ output.fn = "wave"
    /\ input.depth = -1
    /\ input.root_nodes = <<D>>
    /\ ~input.reverse
    /\ Cardinality(Entries(output.trace, A)) = 2

\* the names a str(list) names, read back from its characters: the runs
\* between an opening and a closing quote
RECURSIVE names_in_str(_, _, _, _)
names_in_str(chars, i, inside, name) ==
    IF i > Len(chars) THEN <<>>
    ELSE IF chars[i] = "'"
         THEN (IF inside THEN <<name>> ELSE <<>>)
                 \o names_in_str(chars, i + 1, ~inside, <<>>)
         ELSE names_in_str(chars, i + 1, inside,
                           IF inside THEN Append(name, chars[i]) ELSE name)

\* C31: a call of wave() writes one point of measurement 'waves', whatever
\* was submitted: its wave_id is the wave, its timed_trigger is true exactly
\* for depth -1 and start depth 0, its root_nodes names the root nodes as
\* given and its submitted_nodes names each submitted node once and no other
C31_WavesPoint ==
    output.fn = "wave" =>
        /\ Len(output.points) = 1
        /\ output.points[1].measurement = "waves"
        /\ LET fields == output.points[1].fields
               submitted_names == names_in_str(fields.submitted_nodes, 1, FALSE, <<>>)
           IN  /\ fields.wave_id = input.wave
               /\ fields.timed_trigger <=> (input.depth = -1 /\ input.start_depth = 0)
               /\ names_in_str(fields.root_nodes, 1, FALSE, <<>>) = input.root_nodes
               /\ SeqToSet(submitted_names) = output.submitted
               /\ Len(submitted_names) = Cardinality(output.submitted)
               /\ output.submitted
                     = {output.trace[k].node :
                           k \in {j \in 1..Len(output.trace) : output.trace[j].kind = "submit"}}

\* a wave of unbounded depth from start depth 1 that submitted nothing has
\* written its point, which is no timed trigger
C31_Witness ==
    /\ output.fn = "wave"
    /\ output.submitted = {}
    /\ input.depth = -1
    /\ input.start_depth = 1
    /\ Len(output.points) = 1
    /\ output.points[1].fields.submitted_nodes = <<"[", "]">>
    /\ ~output.points[1].fields.timed_trigger

\* a timed trigger that submitted several nodes
C31_WitnessSubmitted ==
    /\ output.fn = "wave"
    /\ Cardinality(output.submitted) >= 3
    /\ output.points[1].fields.timed_trigger
    /\ Len(input.root_nodes) = 2

\* the barriers submitted by the run
Barriers == SelectSeq(submitted_nodes, LAMBDA s : s.kind = "barrier")

\* C32: an exception other than the caught classifications of the check and
\* of the calibration leaves run() swallowed, behind exactly one barrier
\* submission, if the job is GREEDY_FAILURE, and raised again, with no
\* barrier, if it is not; a failed calibration is not raised: its point has
\* calibration_result 'Fail', one barrier is submitted and LAST_CAL is as it
\* was
C32_ExceptionPaths ==
    /\ pc = "except" => Frame.completion.raised # "None"
    /\ pc = "exited" =>
          /\ output.path = "swallowed" =>
                /\ input.GREEDY_FAILURE
                /\ output.raised = "None"
                /\ Len(Barriers) = 1
          /\ output.path = "reraised" =>
                /\ ~input.GREEDY_FAILURE
                /\ output.raised = "RuntimeError"
                /\ Len(Barriers) = 0
          /\ output.path = "failed_calibration" =>
                /\ output.raised = "None"
                /\ Len(check_data_results) = 1
                /\ check_data_results[1].fields.calibration_result = "Fail"
                /\ Len(Barriers) = 1
                /\ nodes[input.job].last_cal = 0
                /\ ~output.self._cal_analyze

\* a failure-tolerant job has swallowed an exception of the calibration that
\* followed a BadDataError: one diagnosis wave and one barrier were submitted
C32_Witness ==
    /\ pc = "exited"
    /\ output.path = "swallowed"
    /\ output.self._calibration_exp = "created"
    /\ Len(submitted_nodes) = 2
    /\ submitted_nodes[1].kind = "wave"
    /\ submitted_nodes[2].kind = "barrier"

\* a failed calibration has been recorded
C32_WitnessFailedCalibration ==
    /\ pc = "exited"
    /\ output.path = "failed_calibration"
    /\ ~input.GREEDY_FAILURE

\* C33: when the check passes, run() has written one node_results point, of
\* check_result 'Pass' and calibration_result 'None', has set LAST_CHECK, and
\* is left by a return with no calibration experiment created, no wave and no
\* barrier submitted and LAST_CAL as it was
C33_CheckPassed ==
    /\ (pc = "finally" /\ Frame.completion.path = "check_passed") =>
          /\ Frame.self._calibration_exp = "None"
          /\ submitted_nodes = <<>>
    /\ (pc = "exited" /\ output.path = "check_passed") =>
          /\ output.raised = "None"
          /\ Len(check_data_results) = 1
          /\ check_data_results[1].measurement = "node_results"
          /\ check_data_results[1].tags.node_name = input.job
          /\ check_data_results[1].fields.check_result = "Pass"
          /\ check_data_results[1].fields.calibration_result = "None"
          /\ nodes[input.job].last_check = Now
          /\ nodes[input.job].last_cal = 0
          /\ output.self._calibration_exp = "None"
          /\ submitted_nodes = <<>>

\* run() started with the diagnose flag set, so without check_state(), and
\* returned behind a passing check
C33_Witness ==
    /\ pc = "exited"
    /\ output.path = "check_passed"
    /\ input.diagnose_flag
    /\ output.self._check_analyze
    /\ Len(check_data_results) = 1

\* C39: a run whose check failed and that went on to a calibration has
\* written a point of check_result 'Fail' and calibration_result 'Pass' or
\* 'Fail'; a run writes at most one point, and no point has both results
\* 'None'
C39_FailRecorded ==
    pc = "exited" =>
        /\ Len(check_data_results) <= 1
        /\ \A i \in 1..Len(check_data_results) :
              ~(/\ check_data_results[i].fields.check_result = "None"
                /\ check_data_results[i].fields.calibration_result = "None")
        /\ output.path \in {"calibrated", "failed_calibration"} =>
              /\ Len(check_data_results) = 1
              /\ check_data_results[1].fields.check_result = "Fail"
              /\ check_data_results[1].fields.calibration_result \in {"Pass", "Fail"}

\* what the code does instead: the point of a run that calibrated has
\* check_result 'None', the 'Fail' having been set on the list that line 196
\* replaces
C39_FailLost ==
    pc = "exited" =>
        /\ Len(check_data_results) <= 1
        /\ \A i \in 1..Len(check_data_results) :
              ~(/\ check_data_results[i].fields.check_result = "None"
                /\ check_data_results[i].fields.calibration_result = "None")
        /\ output.path \in {"calibrated", "failed_calibration"} =>
              /\ Len(check_data_results) = 1
              /\ check_data_results[1].fields.check_result = "None"
              /\ check_data_results[1].fields.calibration_result
                    = (IF output.path = "calibrated" THEN "Pass" ELSE "Fail")

\* a calibration has succeeded behind an OutOfSpecError and the point written
\* says check_result 'None'
C39_PointWithoutCheckResult ==
    /\ pc = "exited"
    /\ output.path = "calibrated"
    /\ input.check_exception = "OutOfSpecError"
    /\ check_data_results[1].fields.check_result = "None"
    /\ check_data_results[1].fields.calibration_result = "Pass"

(***************************************************************************)
(* The state of the nodes a diagnosis has returned for                     *)
(***************************************************************************)
\* every node is a SimpleNode: check_data returns the failed flag and
\* calibrate clears it
AllSimpleNodes == \A n \in DOMAIN nodes : nodes[n].kind = "SimpleNode"

\* the check results of the current step: those appended to the log and
\* those held by the open activations of _check_node
ResultsOfStep ==
    SelectSeq(check_data_results, LAMBDA r : r.wave > current_time)
        \o Flatten([i \in 1..Len(stack) |-> stack[i].check_data_results])

\* the nodes for which _check_node has returned in this step after
\* evaluating check_data
ReturnedEvaluated == {ResultsOfStep[i].node : i \in 1..Len(ResultsOfStep)}

\* a node and its transitive successors
SuccessorClosure(n) == {n} \cup SeqToSet(get_all_dependencies(graph, n))

\* C34: during the check phase of a step, every node for which _check_node
\* has returned after evaluating its check, and every node of its transitive
\* successor closure, has failed = False; _simulate_failures comes after
\* the check phase
C34_ClosureCalibrated ==
    (pc = "check" /\ AllSimpleNodes) =>
        \A n \in ReturnedEvaluated : \A m \in SuccessorClosure(n) : ~nodes[m].failed

\* in one step a node and one of its successors have both been found failed
\* and calibrated, and the check phase is over
C34_Witness ==
    /\ pc = "check"
    /\ AllSimpleNodes
    /\ stack = <<>>
    /\ sub_idx > Len(submitted_nodes)
    /\ \E i, j \in 1..Len(wave_data) :
          /\ i # j
          /\ wave_data[i].wave > current_time
          /\ wave_data[j].wave > current_time
          /\ ~wave_data[i].timed_trigger
          /\ ~wave_data[j].timed_trigger
          /\ \E n \in ReturnedEvaluated :
                /\ nodes[n].last_calibration = current_time
                /\ \E m \in SuccessorClosure(n) \ {n} :
                      nodes[m].last_calibration = current_time

(***************************************************************************)
(* Timed out nodes and the check phase                                     *)
(***************************************************************************)
PositiveTimeouts == \A n \in DOMAIN nodes : nodes[n].timeout > 0

\* Step 3 of simulate() is over: every submitted node has been handled
CheckPhaseOver == pc = "check" /\ stack = <<>> /\ sub_idx > Len(submitted_nodes)

\* a step in which simulate() calls _check_node for a submitted node and the
\* call returns at the _check_state short-circuit
ShortCircuitOfSubmitted ==
    /\ pc = "check"
    /\ stack = <<>>
    /\ sub_idx <= Len(submitted_nodes)
    /\ sub_idx' = sub_idx + 1
    /\ UNCHANGED <<nodes, wave_data, check_data_results>>

\* when the check phase of a step is over, every node that had timed out at
\* the start of the step has last_check = current_time, and no node is left
\* timed out
CheckedWhenPhaseOver ==
    (CheckPhaseOver /\ PositiveTimeouts) =>
        /\ \A i \in 1..Len(timed_out_nodes) :
              nodes[timed_out_nodes[i]].last_check = current_time
        /\ \A n \in DOMAIN nodes : ~timeout_elapsed(nodes, n, current_time)

\* the call of _check_node for a node that had timed out is not
\* short-circuited
TimedOutNotShortCircuited ==
    (ShortCircuitOfSubmitted /\ PositiveTimeouts) =>
        ~InSeq(submitted_nodes[sub_idx], timed_out_nodes)

\* C35: in every step, a node whose timeout had elapsed at the start of the
\* step is not short-circuited and has last_check = current_time at the end
\* of the check phase, after which no node's timeout has elapsed
C35_TimedOutNodesChecked ==
    []CheckedWhenPhaseOver /\ [][TimedOutNotShortCircuited]_vars

\* the same for simulators whose node names are single characters
C35_HoldsForOneCharacterNames ==
    /\ []((\A n \in DOMAIN nodes : Len(n) = 1) => CheckedWhenPhaseOver)
    /\ [][TimedOutNotShortCircuited]_vars

\* a check phase is over and a node that had timed out has not been checked
C35_TimedOutNodeUnchecked ==
    /\ CheckPhaseOver
    /\ PositiveTimeouts
    /\ \E i \in 1..Len(timed_out_nodes) :
          /\ nodes[timed_out_nodes[i]].last_check < current_time
          /\ timeout_elapsed(nodes, timed_out_nodes[i], current_time)
          /\ ~InSeq(timed_out_nodes[i], submitted_nodes)

(***************************************************************************)
(* split_data_by_wave on the simulator's log                               *)
(***************************************************************************)
\* the log cut at its timed triggers, in the order of emission: one segment
\* per step that emitted a trigger, holding what the step appended
SegmentsOfLog == SplitLoop(wave_data, 1, <<>>, <<>>)

\* split_data_by_wave of the log gives, for each step that emitted a timed
\* trigger, that trigger followed by the diagnosis events the step emitted,
\* in ascending wave order
GroupsAreSteps ==
    LET split_data == split_data_by_wave(wave_data)
    IN  /\ Len(split_data) = Len(SegmentsOfLog)
        /\ Len(split_data)
              = Cardinality({i \in 1..Len(wave_data) : wave_data[i].timed_trigger})
        /\ \A k \in 1..Len(split_data) :
              /\ split_data[k][1] = SegmentsOfLog[k][1]
              /\ split_data[k][1].timed_trigger
              /\ Tail(split_data[k]) = sorted_by_wave(Tail(SegmentsOfLog[k]))
              /\ \A i \in 2..Len(split_data[k]) :
                    /\ ~split_data[k][i].timed_trigger
                    /\ split_data[k][i - 1].wave < split_data[k][i].wave

\* C36: the groups of split_data_by_wave over the simulator's log are the
\* steps in which a node had timed out, each the step's trigger followed by
\* the step's diagnosis events in ascending wave order; a step emits a
\* trigger exactly when the timeout of some node has elapsed
C36_SplitByStep ==
    /\ [](pc # "crashed" => GroupsAreSteps)
    /\ [][(pc = "loop" /\ pc' = "check") =>
             (EmitsTimedTrigger <=>
                 \E name \in SeqToSet(node_names) :
                     timeout_elapsed(nodes, name, current_time))]_vars

\* a run of two triggered steps, of which the first emitted two diagnosis
\* events, the later of them with the smaller wave
C36_Witness ==
    /\ pc = "loop"
    /\ Len(SegmentsOfLog) >= 2
    /\ Len(SegmentsOfLog[1]) >= 3
    /\ SegmentsOfLog[1][2].wave > SegmentsOfLog[1][3].wave

(***************************************************************************)
(* Diagnosis events per node within one propagation                        *)
(***************************************************************************)
\* a VirtualConnectionNode V below two branches: D -> B -> V and D -> C -> V,
\* root D; V is failed at every check and calibrate() leaves it failed
SharedVirtualSim ==
    Simulation(V :> <<>> @@ B :> <<V>> @@ C :> <<V>> @@ D :> <<B, C>>,
               <<V, B, C, D>>,
               V :> VirtualConnectionNode(3 * Milli) @@ B :> SimpleNode(3 * Milli, 0)
                 @@ C :> SimpleNode(3 * Milli, 0) @@ D :> SimpleNode(1 * Milli, 0),
               <<D>>, 1)

VirtualSimulations == { SharedVirtualSim, VirtualSim, DiamondSim, LongNameSim }

\* QuantumCalibrationSimulator.__init__ on a graph of VirtualSimulations
InitVirtual ==
    \E sim \in VirtualSimulations :
        /\ graph = sim.graph
        /\ root_nodes = sim.root_nodes
        /\ time_step = sim.time_step
        /\ node_names = sim.node_names
        /\ nodes = sim.nodes
        /\ wave_data = <<>>
        /\ check_data_results = <<>>
        /\ ground_truth = <<>>
        /\ wave_offset = 0
        /\ current_time = 0
        /\ pc = "loop"
        /\ timed_out_nodes = <<>>
        /\ submitted_nodes = <<>>
        /\ sub_idx = 1
        /\ stack = <<>>
        /\ input = NoCall
        /\ output = NoCall

SpecVirtual == InitVirtual /\ [][Next]_vars

\* the diagnosis events of one propagation of which node is a root
DiagnosisEventsOf(propagation, node) ==
    { i \in DOMAIN propagation :
          /\ ~propagation[i].timed_trigger
          /\ node \in SeqToSet(propagation[i].root_nodes) }

\* no node is the root of two diagnosis events of one propagation
OneDiagnosisPerNode(propagation) ==
    \A n \in SeqToSet(node_names) :
        Cardinality(DiagnosisEventsOf(propagation, n)) <= 1

\* the pairs that find_co_occurring_failures counts for one propagation hold
\* two different nodes, and no pair is counted twice
PairsCountedOnce(propagation) ==
    LET pairs == combinations_2(failing_nodes_of(propagation))
    IN  /\ \A p \in DOMAIN pairs : pairs[p][1] # pairs[p][2]
        /\ \A p, q \in DOMAIN pairs : pairs[p] = pairs[q] => p = q

\* C37: within one propagation no node, a VirtualConnectionNode included, is
\* the root of more than one event with timed_trigger false, so that
\* find_co_occurring_failures never meets a pair of one node with itself and
\* counts each pair at most once
C37_OneDiagnosisPerNodePerStep ==
    pc # "crashed" =>
        \A w \in DOMAIN split_data_by_wave(wave_data) :
            /\ OneDiagnosisPerNode(split_data_by_wave(wave_data)[w])
            /\ PairsCountedOnce(split_data_by_wave(wave_data)[w])

\* C37 for graphs of SimpleNodes only: calibrate() clears the failure, so a
\* second visit of the node in the same step passes its check
C37_HoldsForSimpleNodes ==
    (pc # "crashed" /\ AllSimpleNodes) =>
        \A w \in DOMAIN split_data_by_wave(wave_data) :
            /\ OneDiagnosisPerNode(split_data_by_wave(wave_data)[w])
            /\ PairsCountedOnce(split_data_by_wave(wave_data)[w])

\* reached: the shared VirtualConnectionNode is the root of two diagnosis
\* events of one propagation, and the co-occurrence count raises KeyError on
\* the pair (V, V)
C37_NodeDiagnosedTwice ==
    /\ pc = "loop"
    /\ graph = SharedVirtualSim.graph
    /\ \E w \in DOMAIN split_data_by_wave(wave_data) :
           Cardinality(DiagnosisEventsOf(split_data_by_wave(wave_data)[w], V)) = 2
    /\ find_co_occurring_failures(wave_data, node_names).raised = "KeyError"

(***************************************************************************)
(* failure_magnitude of the emitted check results                          *)
(***************************************************************************)
\* the check of this result was treated as failed: _check_node emitted a
\* diagnosis event with the same wave value and the checked node as root
TreatedAsFailed(check_result) ==
    \E i \in DOMAIN wave_data :
        /\ ~wave_data[i].timed_trigger
        /\ wave_data[i].wave = check_result.wave
        /\ wave_data[i].root_nodes = list_of_str(check_result.node)

\* C38: every CheckResult has failure_magnitude in {0, 1, 2}, above 0 exactly
\* when its check was treated as failed and 0 exactly when it passed
C38_MagnitudeMatchesOutcome ==
    pc = "loop" =>
        \A i \in DOMAIN check_data_results :
            /\ check_data_results[i].failure_magnitude \in 0..2
            /\ check_data_results[i].failure_magnitude > 0
                   <=> TreatedAsFailed(check_data_results[i])

\* the half of C38 that holds: the magnitude is 0, 1 or 2, and a check that
\* passed has magnitude 0
C38_RangeAndPassedIsZero ==
    pc = "loop" =>
        \A i \in DOMAIN check_data_results :
            /\ check_data_results[i].failure_magnitude \in 0..2
            /\ check_data_results[i].failure_magnitude > 0
                   => TreatedAsFailed(check_data_results[i])

\* reached: a SimpleNode that failed its check only through a failed
\* dependency was diagnosed and calibrated, and its CheckResult has magnitude 0
C38_FailedWithMagnitudeZero ==
    /\ pc = "loop"
    /\ AllSimpleNodes
    /\ \E i \in DOMAIN check_data_results :
           /\ check_data_results[i].failure_magnitude = 0
           /\ TreatedAsFailed(check_data_results[i])

(***************************************************************************)
(* One count sample per period and node                                    *)
(***************************************************************************)
\* the samples ci_failures_per_time_period has gathered when its loop over
\* the periods ends
SamplesPerNode ==
    PeriodLoop("all", input.periods, 1, graph, [node \in DOMAIN graph |-> <<>>])

\* the number of diagnosis events of a period that name node as a root
DiagnosisCount(time_period, node) ==
    Cardinality({ i \in DOMAIN FailuresFrom(time_period, 1) :
                      FailuresFrom(time_period, 1)[i] = node })

\* one sample per period for every node, each the period's count for the node
OneSamplePerPeriod ==
    /\ SamplesPerNode.raised = "None"
    /\ \A node \in DOMAIN graph :
           /\ Len(SamplesPerNode.value[node]) = Len(input.periods)
           /\ \A p \in DOMAIN input.periods :
                  SamplesPerNode.value[node][p] = DiagnosisCount(input.periods[p], node)

CalledWithEnoughPeriods ==
    /\ output.fn = "ci_failures_per_time_period"
    /\ enough_samples(input.periods, input.min_num_samples)

\* C40: given at least min_num_samples periods, ci_failures_per_time_period
\* gets one count sample per period for every node of the graph; a period
\* without events, or without a diagnosis event for the node, gives the
\* sample 0 and the call does not fail
C40_OneSamplePerPeriod ==
    CalledWithEnoughPeriods =>
        /\ OneSamplePerPeriod
        /\ output.result.raised = "None"

\* C40 when every period holds an event: the dict of zero counts has a key
\* for every node
C40_HoldsForNonEmptyPeriods ==
    (CalledWithEnoughPeriods /\ \A p \in DOMAIN input.periods : input.periods[p] # <<>>) =>
        /\ OneSamplePerPeriod
        /\ output.result.raised = "None"

\* reached: a period of a trigger alone gives the sample 0 for every node
C40_PeriodWithoutDiagnosis ==
    /\ CalledWithEnoughPeriods
    /\ OneSamplePerPeriod
    /\ \E p \in DOMAIN input.periods :
           /\ input.periods[p] # <<>>
           /\ \A node \in DOMAIN graph : SamplesPerNode.value[node][p] = 0

\* reached: a period without events makes the call raise KeyError
C40_EmptyPeriodRaises ==
    /\ CalledWithEnoughPeriods
    /\ \E p \in DOMAIN input.periods : input.periods[p] = <<>>
    /\ output.result = Raise("KeyError")

====
